---- MODULE Spec2Model ----
(***************************************************************************)
(* Moving (windowed) statistics of sampara: the fixed ring buffer          *)
(* (buffer/fixed.rs), the frontier/horizon extrema engine and the running  *)
(* sum engine (stats/moving.rs) and the buffered activation wrapper        *)
(* generated by the master! macro (stats/moving.rs).                       *)
(*                                                                         *)
(* A frame is a tuple of samples, one per channel; a buffer is a tuple of  *)
(* frames.  Rust indices are 0-based and are kept 0-based in every stored  *)
(* field (head, frontier position, horizon offset, cursor_pos); only the   *)
(* lookups into TLA+ tuples add 1.                                         *)
(***************************************************************************)
EXTENDS Integers, Sequences, FiniteSets, TLC

\* ------------------------------------------------------------------ bounds

\* Number of channels of a frame (the const generic N).
NCh == 2

\* Largest window length explored (the proptests use 1..=8).
MaxLen == 3

\* Samples range over -MaxVal..MaxVal; 0 is the equilibrium of f32.
MaxVal == 1

Values == (0 - MaxVal)..MaxVal

\* A sample that compares as incomparable with every sample (f32::NAN).
NaN == 100

Frames == [1..NCh -> Values]

Buffers(c) == [1..c -> Frames]

Lens == 1..MaxLen

\* Sample::EQUILIBRIUM for float samples.
EQUILIBRIUM == 0

\* Frame::EQUILIBRIUM for a frame of n channels.
FrameEQUILIBRIUM(n) == [ch \in 1..n |-> EQUILIBRIUM]

\* Option<T>.
None == <<>>

Some(x) == <<x>>

\* ------------------------------------------------------------ ring buffer

\* Fixed::from_offset: head.checked_rem(len).unwrap_or(0).
from_offset(buffer, head) ==
    [head |-> IF Len(buffer) = 0 THEN 0 ELSE head % Len(buffer),
     buffer |-> buffer]

\* impl From<B> for Fixed.
FixedFrom(buffer) == from_offset(buffer, 0)

\* capacity taken from the slice that starts at head instead of the buffer.
capacity_of_head_slice(fx) == Len(fx.buffer) - fx.head

capacity(fx) == Len(fx.buffer)

\* Fixed::fill that leaves head where it was.
FixedFill_keeps_head(fx, item) ==
    [head |-> fx.head, buffer |-> [i \in 1..Len(fx.buffer) |-> item]]

\* Fixed::fill: every slot becomes item, head becomes 0.
FixedFill(fx, item) ==
    [head |-> 0, buffer |-> [i \in 1..capacity(fx) |-> item]]

\* Fixed::fill_with: the slice is filled front to back, the closure being
\* called once per slot; gen[i] is what its i-th call returns.
RECURSIVE slice_fill_with(_, _, _)
\* <[T]>::fill_with: for el in self { *el = f() }.  Slots 1..i-1 are written,
\* the closure was called i - 1 times; returns the slice and the calls made.
slice_fill_with(buf, gen, i) ==
    IF i > Len(buf) THEN [buffer |-> buf, calls |-> i - 1]
    ELSE slice_fill_with([buf EXCEPT ![i] = gen[i]], gen, i + 1)

FixedFillWith(fx, gen) ==
    [head |-> 0, buffer |-> slice_fill_with(fx.buffer, gen, 1).buffer]

\* push_with_flag that raises the flag when head + 1 exceeds the capacity,
\* which it never does: head wraps but the flag stays down.
push_with_flag_strict_test(fx, item) ==
    IF Len(fx.buffer) = 0
    THEN [fixed |-> fx, old_item |-> item, was_reset |-> TRUE]
    ELSE LET next_head == fx.head + 1
         IN  [fixed |-> [head |-> IF next_head >= Len(fx.buffer) THEN 0 ELSE next_head,
                         buffer |-> [fx.buffer EXCEPT ![fx.head + 1] = item]],
              old_item |-> fx.buffer[fx.head + 1],
              was_reset |-> next_head > Len(fx.buffer)]

\* push_with_flag with the wrap test one slot short: the flag is raised by
\* the push before the one that takes head back to 0.
push_with_flag_early(fx, item) ==
    IF capacity(fx) = 0
    THEN [fixed |-> fx, old_item |-> item, was_reset |-> TRUE]
    ELSE LET next_head == fx.head + 1
         IN  [fixed |-> [head |-> IF next_head >= capacity(fx) THEN 0 ELSE next_head,
                         buffer |-> [fx.buffer EXCEPT ![fx.head + 1] = item]],
              old_item |-> fx.buffer[fx.head + 1],
              was_reset |-> next_head + 1 >= capacity(fx)]

\* Fixed::push_with_flag: returns the new buffer, the replaced item and the
\* flag telling that head went back to 0.
push_with_flag(fx, item) ==
    IF capacity(fx) = 0
    THEN [fixed |-> fx, old_item |-> item, was_reset |-> TRUE]
    ELSE LET next_head == fx.head + 1
             was_reset == next_head >= capacity(fx)
         IN  [fixed |-> [head |-> IF was_reset THEN 0 ELSE next_head,
                         buffer |-> [fx.buffer EXCEPT ![fx.head + 1] = item]],
              old_item |-> fx.buffer[fx.head + 1],
              was_reset |-> was_reset]

\* Fixed::push handing back the frame it was given instead of the one it
\* replaced.
FixedPush_returns_item(fx, item) ==
    [push_with_flag(fx, item) EXCEPT !.old_item = item]

\* Fixed::push.
FixedPush(fx, item) == push_with_flag(fx, item)

\* Fixed::iter over as_slices: buffer[head..] followed by buffer[..head].
FixedIter(fx) ==
    SubSeq(fx.buffer, fx.head + 1, capacity(fx)) \o SubSeq(fx.buffer, 1, fx.head)

into_buffer(fx) == fx.buffer

\* lookup that forgets to offset by head: indices address raw slots.
lookup_raw_slot(fx, index, wrap) ==
    IF ~wrap /\ index >= Len(fx.buffer) THEN None
    ELSE LET c == Len(fx.buffer)
         IN  IF c = 0 THEN None ELSE Some(index % c)

\* Fixed::lookup: the slot of logical index `index`, None when the index is
\* out of range and wrap is off, or when the capacity is 0.
lookup(fx, index, wrap) ==
    IF ~wrap /\ index >= capacity(fx) THEN None
    ELSE LET c == capacity(fx)
         IN  IF c = 0 THEN None ELSE Some((fx.head + (index % c)) % c)

\* Fixed::get: `?` on lookup, then slice::get of the slot.
get(fx, index) ==
    LET wrapped_index == lookup(fx, index, FALSE)
    IN  IF wrapped_index = None THEN None
        ELSE Some(fx.buffer[wrapped_index[1] + 1])

\* A write through Fixed::get_mut (if let Some(slot) = get_mut(index)
\* { *slot = item }): the buffer afterwards and whether a slot was found.
get_mut(fx, index, item) ==
    LET wrapped_index == lookup(fx, index, FALSE)
    IN  IF wrapped_index = None
        THEN [fixed |-> fx, found |-> FALSE]
        ELSE [fixed |-> [fx EXCEPT !.buffer[wrapped_index[1] + 1] = item],
              found |-> TRUE]

\* Fixed::get_wrapped and Index::index: lookup(..).unwrap(), then the slot.
\* panic tells that the unwrap failed.
get_wrapped(fx, index) ==
    LET wrapped_index == lookup(fx, index, TRUE)
    IN  IF wrapped_index = None
        THEN [panic |-> TRUE, item |-> None]
        ELSE [panic |-> FALSE, item |-> Some(fx.buffer[wrapped_index[1] + 1])]

\* A write through Fixed::get_wrapped_mut / IndexMut::index_mut.
get_wrapped_mut(fx, index, item) ==
    LET wrapped_index == lookup(fx, index, TRUE)
    IN  IF wrapped_index = None
        THEN [panic |-> TRUE, fixed |-> fx]
        ELSE [panic |-> FALSE,
              fixed |-> [fx EXCEPT !.buffer[wrapped_index[1] + 1] = item]]

\* Fixed::as_slices: split_at(head) gives (tail, head); returned as (head, tail).
as_slices(fx) ==
    [head |-> SubSeq(fx.buffer, fx.head + 1, capacity(fx)),
     tail |-> SubSeq(fx.buffer, 1, fx.head)]

\* Fixed::iter / iter_mut: one slice iterator over each of the two slices.
iter(fx) == as_slices(fx)

\* Iterator::next of core::slice::Iter, the slice being what is left to yield.
slice_next(s) ==
    IF Len(s) = 0 THEN [iter |-> s, item |-> None]
    ELSE [iter |-> Tail(s), item |-> Some(Head(s))]

\* DoubleEndedIterator::next_back of core::slice::Iter.
slice_next_back(s) ==
    IF Len(s) = 0 THEN [iter |-> s, item |-> None]
    ELSE [iter |-> SubSeq(s, 1, Len(s) - 1), item |-> Some(s[Len(s)])]

\* Iter::next / IterMut::next: self.head.next().or_else(|| self.tail.next()).
Iter_next(it) ==
    LET h == slice_next(it.head)
    IN  IF h.item # None
        THEN [iter |-> [it EXCEPT !.head = h.iter], item |-> h.item]
        ELSE LET t == slice_next(it.tail)
             IN  [iter |-> [head |-> h.iter, tail |-> t.iter], item |-> t.item]

\* next_back that drains the head slice before the tail slice.
Iter_next_back_head_first(it) ==
    LET h == slice_next_back(it.head)
    IN  IF h.item # None
        THEN [iter |-> [it EXCEPT !.head = h.iter], item |-> h.item]
        ELSE LET t == slice_next_back(it.tail)
             IN  [iter |-> [head |-> h.iter, tail |-> t.iter], item |-> t.item]

\* Iter::next_back / IterMut::next_back:
\* self.tail.next_back().or_else(|| self.head.next_back()).
Iter_next_back(it) ==
    LET t == slice_next_back(it.tail)
    IN  IF t.item # None
        THEN [iter |-> [it EXCEPT !.tail = t.iter], item |-> t.item]
        ELSE LET h == slice_next_back(it.head)
             IN  [iter |-> [head |-> h.iter, tail |-> t.iter], item |-> h.item]

\* ExactSizeIterator::len of Iter / IterMut.
Iter_len(it) == Len(it.head) + Len(it.tail)

\* ------------------------------------------------------- ordering policy

\* PartialOrd::partial_cmp on samples: None when either side is NaN.
partial_cmp(a, b) ==
    IF a = NaN \/ b = NaN THEN "None"
    ELSE IF a < b THEN "Less"
    ELSE IF a > b THEN "Greater"
    ELSE "Equal"

\* surpasses that lets an incomparable candidate through.
surpasses_unordered_wins(candidate, target, MAX) ==
    LET c == partial_cmp(candidate, target)
    IN  IF c = "Less" /\ MAX THEN FALSE
        ELSE IF c = "Greater" /\ ~MAX THEN FALSE
        ELSE TRUE

\* stats::surpasses::<S, MAX>(candidate, target).
surpasses(candidate, target, MAX) ==
    LET c == partial_cmp(candidate, target)
    IN  IF c = "None" THEN FALSE
        ELSE IF c = "Less" /\ MAX THEN FALSE
        ELSE IF c = "Greater" /\ ~MAX THEN FALSE
        ELSE TRUE

\* --------------------------------------------------------- extrema state
\* The state of one channel after a step: its frontier (ext, pos), its
\* optional horizon (ext, offset), the Diff reported and err, which is TRUE
\* when the step panics (an assert_eq!, an expect, or a usize subtraction
\* that underflows).

\* set_frontier that stores position 0 for the new frontier and leaves the
\* cursor position unused.
set_frontier_at_zero(contender, cursor_pos) ==
    [f |-> <<contender, 0>>, h |-> None, diff |-> "Frontier", err |-> FALSE]

set_frontier(contender, cursor_pos) ==
    [f |-> <<contender, cursor_pos>>, h |-> None, diff |-> "Frontier", err |-> FALSE]

\* set_horizon that stores the distance from the frontier to the cursor,
\* one more than the count of frames between them.
set_horizon_offset_by_one(f, contender, frontier_pos, cursor_pos) ==
    IF cursor_pos < frontier_pos + 1
    THEN [f |-> f, h |-> None, diff |-> "Horizon", err |-> TRUE]
    ELSE [f |-> f, h |-> Some(<<contender, cursor_pos - frontier_pos>>),
          diff |-> "Horizon", err |-> FALSE]

set_horizon(f, contender, frontier_pos, cursor_pos) ==
    IF cursor_pos < frontier_pos + 1
    THEN [f |-> f, h |-> None, diff |-> "Horizon", err |-> TRUE]
    ELSE [f |-> f, h |-> Some(<<contender, cursor_pos - frontier_pos - 1>>),
          diff |-> "Horizon", err |-> FALSE]

\* set_horizon_init that computes the offset, checks it and reports the
\* Diff, but does not store the horizon.
set_horizon_init_unstored(f, contender, frontier_pos, cursor_pos, expect_zero) ==
    IF cursor_pos < frontier_pos + 1
    THEN [f |-> f, h |-> None, diff |-> "HorizonInit", err |-> TRUE]
    ELSE LET frontier_offset == cursor_pos - frontier_pos - 1
         IN  [f |-> f, h |-> None,
              diff |-> "HorizonInit",
              err |-> expect_zero /\ frontier_offset # 0]

set_horizon_init(f, contender, frontier_pos, cursor_pos, expect_zero) ==
    IF cursor_pos < frontier_pos + 1
    THEN [f |-> f, h |-> None, diff |-> "HorizonInit", err |-> TRUE]
    ELSE LET frontier_offset == cursor_pos - frontier_pos - 1
         IN  [f |-> f, h |-> Some(<<contender, frontier_offset>>),
              diff |-> "HorizonInit",
              err |-> expect_zero /\ frontier_offset # 0]

\* ExtremaState::push, one channel: the append-only update, cursor_pos
\* being the already incremented cursor.
push_channel(f, opt_h, x, cursor_pos, MAX) ==
    IF surpasses(x, f[1], MAX)
    THEN set_frontier(x, cursor_pos)                               \* [EF]
    ELSE IF opt_h # None
         THEN IF surpasses(x, opt_h[1][1], MAX)
              THEN set_horizon(f, x, f[2], cursor_pos)             \* [EH]
              ELSE [f |-> f, h |-> opt_h, diff |-> "NoChange", err |-> FALSE]
         ELSE set_horizon_init(f, x, f[2], cursor_pos, TRUE)       \* [EI]

\* push that hands the channels the cursor as it was before the increment.
push_stale_cursor(es, xs, MAX) ==
    LET cursor_pos == es.cursor_pos + 1
        r == [ch \in DOMAIN xs |->
                push_channel(es.frontiers[ch], es.horizons[ch], xs[ch],
                             es.cursor_pos, MAX)]
    IN  [frontiers |-> [ch \in DOMAIN xs |-> r[ch].f],
         horizons |-> [ch \in DOMAIN xs |-> r[ch].h],
         cursor_pos |-> cursor_pos,
         diffs |-> [ch \in DOMAIN xs |-> r[ch].diff],
         err |-> \E ch \in DOMAIN xs : r[ch].err]

\* ExtremaState::push on a whole frame.  The Diffs it returns are kept in the
\* record as `diffs` (the callers drop them), and err tells that it panicked.
push(es, xs, MAX) ==
    LET cursor_pos == es.cursor_pos + 1
        r == [ch \in DOMAIN xs |->
                push_channel(es.frontiers[ch], es.horizons[ch], xs[ch], cursor_pos, MAX)]
    IN  [frontiers |-> [ch \in DOMAIN xs |-> r[ch].f],
         horizons |-> [ch \in DOMAIN xs |-> r[ch].h],
         cursor_pos |-> cursor_pos,
         diffs |-> [ch \in DOMAIN xs |-> r[ch].diff],
         err |-> \E ch \in DOMAIN xs : r[ch].err]

\* The rescan loop that keeps the first sample it meets as the horizon.
RECURSIVE discover_keeps_first(_, _, _, _)
discover_keeps_first(ys, i, disc, MAX) ==
    IF i > Len(ys) THEN disc
    ELSE LET horizon_offset == i - 1
             y == ys[i]
         IN  IF disc.h # None
             THEN discover_keeps_first(ys, i + 1, disc, MAX)
             ELSE discover_keeps_first(ys, i + 1,
                                       [h |-> Some(<<y, horizon_offset>>),
                                        err |-> disc.err \/ horizon_offset # 0], MAX)

\* The rescan loop of case [PFN]: ys are the samples of the channel that
\* follow the new frontier, i the next (1-based) one to look at.
RECURSIVE discover(_, _, _, _)
discover(ys, i, disc, MAX) ==
    IF i > Len(ys) THEN disc
    ELSE LET horizon_offset == i - 1
             y == ys[i]
         IN  IF disc.h # None
             THEN IF surpasses(y, disc.h[1][1], MAX)
                  THEN discover(ys, i + 1, [disc EXCEPT !.h = Some(<<y, horizon_offset>>)], MAX)
                  ELSE discover(ys, i + 1, disc, MAX)
             ELSE discover(ys, i + 1,
                           [h |-> Some(<<y, horizon_offset>>),
                            err |-> disc.err \/ horizon_offset # 0], MAX)

\* promote with a rescan that stops before the frame just pushed.
promote_misses_newest(h, ch, window, MAX) ==
    LET f_pos == h[2]
        w == FixedIter(window)
    IN  IF f_pos >= Len(w)
        THEN [f |-> h, h |-> None, diff |-> "Promoted", err |-> TRUE]
        ELSE LET ys == [i \in 1..(Len(w) - f_pos - 2) |-> w[f_pos + 1 + i][ch]]
                 d == discover(ys, 1, [h |-> None, err |-> FALSE], MAX)
             IN  [f |-> h, h |-> d.h, diff |-> "Promoted", err |-> d.err]

\* promote with a rescan that reads the first channel whatever ch is.
promote_rescans_first_channel(h, ch, window, MAX) ==
    LET f_pos == h[2]
        w == FixedIter(window)
    IN  IF f_pos >= Len(w)
        THEN [f |-> h, h |-> None, diff |-> "Promoted", err |-> TRUE]
        ELSE LET ys == [i \in 1..(Len(w) - f_pos - 1) |-> w[f_pos + 1 + i][1]]
                 d == discover(ys, 1, [h |-> None, err |-> FALSE], MAX)
             IN  [f |-> h, h |-> d.h, diff |-> "Promoted", err |-> d.err]

\* promote that places the new frontier one frame late, at the position the
\* horizon had before the window slid.
promote_keeps_old_position(h, ch, window, MAX) ==
    LET f_pos == h[2] + 1
        w == FixedIter(window)
    IN  IF f_pos >= Len(w)
        THEN [f |-> <<h[1], f_pos>>, h |-> None, diff |-> "Promoted", err |-> FALSE]
        ELSE LET ys == [i \in 1..(Len(w) - f_pos - 1) |-> w[f_pos + 1 + i][ch]]
                 d == discover(ys, 1, [h |-> None, err |-> FALSE], MAX)
             IN  [f |-> <<h[1], f_pos>>, h |-> d.h, diff |-> "Promoted", err |-> d.err]

\* Case [PFN]: the horizon becomes the frontier, at the horizon's offset, and
\* the window after it is searched for a new horizon.
promote(h, ch, window, MAX) ==
    LET f_pos == h[2]
        w == FixedIter(window)
    IN  IF f_pos >= Len(w)
        THEN [f |-> h, h |-> None, diff |-> "Promoted", err |-> TRUE]
        ELSE LET ys == [i \in 1..(Len(w) - f_pos - 1) |-> w[f_pos + 1 + i][ch]]
                 d == discover(ys, 1, [h |-> None, err |-> FALSE], MAX)
             IN  [f |-> h, h |-> d.h, diff |-> "Promoted", err |-> d.err]

\* push_pop that takes the frontier to leave the window when its position
\* is that of the newest frame.
push_pop_channel_pops_newest(f, opt_h, x, cursor_pos, ch, window, MAX) ==
    LET is_f_pop == f[2] = cursor_pos
        f_pos == IF is_f_pop THEN f[2] ELSE f[2] - 1
        f1 == <<f[1], f_pos>>
    IN  IF surpasses(x, f[1], MAX)
        THEN set_frontier(x, cursor_pos)
        ELSE IF opt_h # None
             THEN LET s == surpasses(x, opt_h[1][1], MAX)
                  IN  IF ~is_f_pop /\ ~s
                      THEN [f |-> f1, h |-> opt_h, diff |-> "NoChange", err |-> FALSE]
                      ELSE IF ~is_f_pop /\ s
                      THEN set_horizon(f1, x, f_pos, cursor_pos)
                      ELSE IF is_f_pop /\ ~s
                      THEN promote(opt_h[1], ch, window, MAX)
                      ELSE set_frontier(x, cursor_pos)
             ELSE IF is_f_pop
                  THEN set_frontier(x, cursor_pos)
                  ELSE set_horizon_init(f1, x, f_pos, cursor_pos, TRUE)

\* push_pop that, the frontier evicted, installs the incoming sample
\* whether or not it surpasses the horizon, and so never rescans.
push_pop_channel_never_promotes(f, opt_h, x, cursor_pos, ch, window, MAX) ==
    LET is_f_pop == f[2] = 0
        f_pos == IF is_f_pop THEN f[2] ELSE f[2] - 1
        f1 == <<f[1], f_pos>>
    IN  IF surpasses(x, f[1], MAX)
        THEN set_frontier(x, cursor_pos)
        ELSE IF opt_h # None
             THEN LET s == surpasses(x, opt_h[1][1], MAX)
                  IN  IF ~is_f_pop /\ ~s
                      THEN [f |-> f1, h |-> opt_h, diff |-> "NoChange", err |-> FALSE]
                      ELSE IF ~is_f_pop /\ s
                      THEN set_horizon(f1, x, f_pos, cursor_pos)
                      ELSE set_frontier(x, cursor_pos)
             ELSE IF is_f_pop
                  THEN set_frontier(x, cursor_pos)
                  ELSE set_horizon_init(f1, x, f_pos, cursor_pos, TRUE)

\* push_pop that keeps an evicted frontier when there is no horizon to
\* promote and the incoming sample does not surpass it.
push_pop_channel_keeps_evicted(f, opt_h, x, cursor_pos, ch, window, MAX) ==
    LET is_f_pop == f[2] = 0
        f_pos == IF is_f_pop THEN f[2] ELSE f[2] - 1
        f1 == <<f[1], f_pos>>
    IN  IF surpasses(x, f[1], MAX)
        THEN set_frontier(x, cursor_pos)
        ELSE IF opt_h # None
             THEN LET s == surpasses(x, opt_h[1][1], MAX)
                  IN  IF ~is_f_pop /\ ~s
                      THEN [f |-> f1, h |-> opt_h, diff |-> "NoChange", err |-> FALSE]
                      ELSE IF ~is_f_pop /\ s
                      THEN set_horizon(f1, x, f_pos, cursor_pos)
                      ELSE IF is_f_pop /\ ~s
                      THEN promote(opt_h[1], ch, window, MAX)
                      ELSE set_frontier(x, cursor_pos)
             ELSE IF is_f_pop
                  THEN [f |-> f1, h |-> opt_h, diff |-> "NoChange", err |-> FALSE]
                  ELSE set_horizon_init(f1, x, f_pos, cursor_pos, TRUE)

\* push_pop that leaves the position of a frontier that stays as it was.
push_pop_channel_no_ageing(f, opt_h, x, cursor_pos, ch, window, MAX) ==
    LET is_f_pop == f[2] = 0
        f_pos == f[2]
        f1 == <<f[1], f_pos>>
    IN  IF surpasses(x, f[1], MAX)
        THEN set_frontier(x, cursor_pos)
        ELSE IF opt_h # None
             THEN LET s == surpasses(x, opt_h[1][1], MAX)
                  IN  IF ~is_f_pop /\ ~s
                      THEN [f |-> f1, h |-> opt_h, diff |-> "NoChange", err |-> FALSE]
                      ELSE IF ~is_f_pop /\ s
                      THEN set_horizon(f1, x, f_pos, cursor_pos)
                      ELSE IF is_f_pop /\ ~s
                      THEN promote(opt_h[1], ch, window, MAX)
                      ELSE set_frontier(x, cursor_pos)
             ELSE IF is_f_pop
                  THEN set_frontier(x, cursor_pos)
                  ELSE set_horizon_init(f1, x, f_pos, cursor_pos, TRUE)

\* ExtremaState::push_pop, one channel; window is the ring buffer after the
\* push of the new frame.
push_pop_channel(f, opt_h, x, cursor_pos, ch, window, MAX) ==
    LET is_f_pop == f[2] = 0
        f_pos == IF is_f_pop THEN f[2] ELSE f[2] - 1
        f1 == <<f[1], f_pos>>
    IN  IF surpasses(x, f[1], MAX)
        THEN set_frontier(x, cursor_pos)                           \* [PFF] [PNF]
        ELSE IF opt_h # None
             THEN LET s == surpasses(x, opt_h[1][1], MAX)
                  IN  IF ~is_f_pop /\ ~s
                      THEN [f |-> f1, h |-> opt_h, diff |-> "NoChange", err |-> FALSE]
                      ELSE IF ~is_f_pop /\ s
                      THEN set_horizon(f1, x, f_pos, cursor_pos)   \* [PNH]
                      ELSE IF is_f_pop /\ ~s
                      THEN promote(opt_h[1], ch, window, MAX)      \* [PFN]
                      ELSE set_frontier(x, cursor_pos)             \* [PFH]
             ELSE IF is_f_pop
                  THEN set_frontier(x, cursor_pos)                 \* [PFI]
                  ELSE set_horizon_init(f1, x, f_pos, cursor_pos, TRUE)  \* [PNI]

\* ExtremaState::push_pop on a whole frame.
push_pop(es, xs, window, MAX) ==
    LET r == [ch \in DOMAIN xs |->
                push_pop_channel(es.frontiers[ch], es.horizons[ch], xs[ch],
                                 es.cursor_pos, ch, window, MAX)]
    IN  [frontiers |-> [ch \in DOMAIN xs |-> r[ch].f],
         horizons |-> [ch \in DOMAIN xs |-> r[ch].h],
         cursor_pos |-> es.cursor_pos,
         diffs |-> [ch \in DOMAIN xs |-> r[ch].diff],
         err |-> \E ch \in DOMAIN xs : r[ch].err]

\* impl From<[S; N]> for ExtremaState: the genesis state.
ExtremaStateFrom(xs) ==
    [frontiers |-> [ch \in DOMAIN xs |-> <<xs[ch], 0>>],
     horizons |-> [ch \in DOMAIN xs |-> None],
     cursor_pos |-> 0,
     diffs |-> [ch \in DOMAIN xs |-> "NoChange"],
     err |-> FALSE]

\* Folds frames i.. of a buffer into an extrema state with push.
RECURSIVE push_all(_, _, _, _)
push_all(es, frames, i, MAX) ==
    IF i > Len(frames) THEN es
    ELSE LET n == push(es, frames[i], MAX)
         IN  push_all([n EXCEPT !.err = es.err \/ n.err], frames, i + 1, MAX)

\* -------------------------------------------------------- extrema engine
\* ExtremaInner: the ring buffer `window` and `ext_state`.

\* __from with a fold that starts one frame late.
ExtremaInner__from_skips_second(buffer, MAX) ==
    [window |-> FixedFrom(buffer),
     ext_state |-> push_all(ExtremaStateFrom(buffer[1]), buffer, 3, MAX)]

ExtremaInner__from(buffer, MAX) ==
    [window |-> FixedFrom(buffer),
     ext_state |-> push_all(ExtremaStateFrom(buffer[1]), buffer, 2, MAX)]

ExtremaInner__len(e) == capacity(e.window)

\* __fill that leaves the horizons of the state it overwrites in place.
ExtremaInner__fill_keeps_horizons(e, fill_val) ==
    LET f_pos == ExtremaInner__len(e) - 1
    IN  [window |-> FixedFill(e.window, fill_val),
         ext_state |-> [frontiers |-> [ch \in DOMAIN fill_val |-> <<fill_val[ch], f_pos>>],
                        horizons |-> e.ext_state.horizons,
                        cursor_pos |-> f_pos,
                        diffs |-> [ch \in DOMAIN fill_val |-> "NoChange"],
                        err |-> f_pos < 0]]

\* __fill that places the frontiers at the oldest slot of the window.
ExtremaInner__fill_frontier_oldest(e, fill_val) ==
    LET f_pos == ExtremaInner__len(e) - 1
    IN  [window |-> FixedFill(e.window, fill_val),
         ext_state |-> [frontiers |-> [ch \in DOMAIN fill_val |-> <<fill_val[ch], 0>>],
                        horizons |-> [ch \in DOMAIN fill_val |-> None],
                        cursor_pos |-> f_pos,
                        diffs |-> [ch \in DOMAIN fill_val |-> "NoChange"],
                        err |-> f_pos < 0]]

ExtremaInner__fill(e, fill_val) ==
    LET f_pos == ExtremaInner__len(e) - 1
    IN  [window |-> FixedFill(e.window, fill_val),
         ext_state |-> [frontiers |-> [ch \in DOMAIN fill_val |-> <<fill_val[ch], f_pos>>],
                        horizons |-> [ch \in DOMAIN fill_val |-> None],
                        cursor_pos |-> f_pos,
                        diffs |-> [ch \in DOMAIN fill_val |-> "NoChange"],
                        err |-> f_pos < 0]]

\* __reset that renews the extrema state and leaves the window's frames.
ExtremaInner__reset_keeps_window(e) ==
    LET zero == FrameEQUILIBRIUM(Len(e.ext_state.frontiers))
        f_pos == ExtremaInner__len(e) - 1
    IN  [window |-> e.window,
         ext_state |-> [frontiers |-> [ch \in DOMAIN zero |-> <<zero[ch], f_pos>>],
                        horizons |-> [ch \in DOMAIN zero |-> None],
                        cursor_pos |-> f_pos,
                        diffs |-> [ch \in DOMAIN zero |-> "NoChange"],
                        err |-> f_pos < 0]]

ExtremaInner__reset(e) ==
    ExtremaInner__fill(e, FrameEQUILIBRIUM(Len(e.ext_state.frontiers)))

\* __from_empty that forgets the reset of the dummy value.
ExtremaInner__from_empty_no_reset(buffer, n) ==
    [window |-> FixedFrom(buffer),
     ext_state |-> ExtremaStateFrom(FrameEQUILIBRIUM(n))]

ExtremaInner__from_empty(buffer, n) ==
    ExtremaInner__reset([window |-> FixedFrom(buffer),
                         ext_state |-> ExtremaStateFrom(FrameEQUILIBRIUM(n))])

ExtremaInner__fill_with(e, gen, MAX) ==
    [window |-> FixedFillWith(e.window, gen),
     ext_state |-> push_all(ExtremaStateFrom(gen[1]), gen, 2, MAX)]

ExtremaInner__advance(e, input, MAX) ==
    LET window == FixedPush(e.window, input).fixed
        es == push_pop(e.ext_state, input, window, MAX)
    IN  [window |-> window,
         ext_state |-> [es EXCEPT !.err = e.ext_state.err \/ es.err]]

ExtremaInner__current(e) ==
    [ch \in DOMAIN e.ext_state.frontiers |-> e.ext_state.frontiers[ch][1]]

\* ------------------------------------------------------ summage engine
\* SummageInner<SQRT, POW2>: the ring buffer `window` (holding the squared
\* frames when POW2) and the running `sum`.

RECURSIVE gcd(_, _)
gcd(a, b) == IF b = 0 THEN a ELSE gcd(b, a % b)

\* s / len_f on samples whose sums are exact: the quotient as a reduced
\* fraction <<numerator, denominator>>.
div_sample(s, len) ==
    LET a == IF s < 0 THEN 0 - s ELSE s
        g == gcd(a, len)
    IN  <<s \div g, len \div g>>

\* A float sample far above the others (2^30 next to samples of a few
\* units): the 24-bit significand of f32 cannot hold a sum of both, so the
\* small part of such a sum is rounded away.  Huge stands for that magnitude
\* and every multiple of it is a float; sums of small samples are exact.
Huge == 1000

\* The float nearest to the real number x.
fl(x) ==
    IF 2 * x < Huge /\ 2 * x > 0 - Huge THEN x
    ELSE ((2 * x + Huge) \div (2 * Huge)) * Huge

\* Float::sqrt, kept symbolic.
sqrt(q) == <<"sqrt", q>>

\* frame.transform(|x| x * x) when POW2.
pow2_frame(frame, POW2) ==
    IF POW2 THEN [ch \in DOMAIN frame |-> fl(frame[ch] * frame[ch])] ELSE frame

\* Frame::add_assign_frame: Sample::add_amp channel by channel.
add_frame(a, b) == [ch \in DOMAIN a |-> fl(a[ch] + b[ch])]

\* Frame::sub_assign_frame: Sample::sub_amp channel by channel.
sub_frame(a, b) == [ch \in DOMAIN a |-> fl(a[ch] - b[ch])]

RECURSIVE sum_frames(_, _, _)
sum_frames(frames, i, acc) ==
    IF i > Len(frames) THEN acc
    ELSE sum_frames(frames, i + 1, add_frame(acc, frames[i]))

SummageInner__from(buffer, POW2) ==
    LET squared == [i \in 1..Len(buffer) |-> pow2_frame(buffer[i], POW2)]
    IN  [window |-> FixedFrom(squared),
         sum |-> sum_frames(squared, 1, FrameEQUILIBRIUM(Len(buffer[1])))]

SummageInner__len(e) == capacity(e.window)

SummageInner__reset(e) ==
    [window |-> FixedFill(e.window, FrameEQUILIBRIUM(Len(e.sum))),
     sum |-> FrameEQUILIBRIUM(Len(e.sum))]

SummageInner__from_empty(buffer, n) ==
    SummageInner__reset([window |-> FixedFrom(buffer), sum |-> FrameEQUILIBRIUM(n)])

SummageInner__fill(e, fill_val, POW2) ==
    LET v == pow2_frame(fill_val, POW2)
    IN  [window |-> FixedFill(e.window, v),
         sum |-> [ch \in DOMAIN v |-> fl(v[ch] * SummageInner__len(e))]]

SummageInner__fill_with(e, gen, POW2) ==
    LET squared == [i \in 1..SummageInner__len(e) |-> pow2_frame(gen[i], POW2)]
    IN  [window |-> FixedFillWith(e.window, squared),
         sum |-> sum_frames(squared, 1, FrameEQUILIBRIUM(Len(e.sum)))]

\* __advance that adds the new frame and forgets to take the evicted one off.
SummageInner__advance_no_subtract(e, input, SQRT, POW2) ==
    LET x == pow2_frame(input, POW2)
        p == FixedPush(e.window, x)
    IN  [window |-> p.fixed, sum |-> add_frame(e.sum, x)]

SummageInner__advance(e, input, SQRT, POW2) ==
    LET x == pow2_frame(input, POW2)
        p == FixedPush(e.window, x)
        raw == sub_frame(add_frame(e.sum, x), p.old_item)
    IN  [window |-> p.fixed,
         sum |-> IF SQRT
                 THEN [ch \in DOMAIN raw |->
                         IF raw[ch] > EQUILIBRIUM THEN raw[ch] ELSE EQUILIBRIUM]
                 ELSE raw]

\* __current that hands the sum back without dividing it by the length.
SummageInner__current_undivided(e, SQRT) ==
    [ch \in DOMAIN e.sum |->
        LET q == div_sample(e.sum[ch], 1)
        IN  IF SQRT THEN sqrt(q) ELSE q]

SummageInner__current(e, SQRT) ==
    [ch \in DOMAIN e.sum |->
        LET q == div_sample(e.sum[ch], SummageInner__len(e))
        IN  IF SQRT THEN sqrt(q) ELSE q]

\* ------------------------------------------------- the five calculators
\* master!: MovingRms, MovingMs, MovingMean, MovingMin, MovingMax, each a
\* newtype over its inner engine.  `cls` names the calculator.

Classes == {"MovingRms", "MovingMs", "MovingMean", "MovingMin", "MovingMax"}

ExtremaClasses == {"MovingMin", "MovingMax"}

\* DO_SQRT / NO_SQRT, DO_POW2 / NO_POW2, DO_MAX / DO_MIN of the type aliases.
SQRT(cls) == cls = "MovingRms"

POW2(cls) == cls \in {"MovingRms", "MovingMs"}

MAX(cls) == cls = "MovingMax"

\* $cls::from (the buffer is non-empty: the assert! has passed).
Moving_from(cls, buffer) ==
    IF cls \in ExtremaClasses
    THEN ExtremaInner__from(buffer, MAX(cls))
    ELSE SummageInner__from(buffer, POW2(cls))

Moving_from_empty(cls, buffer, n) ==
    IF cls \in ExtremaClasses
    THEN ExtremaInner__from_empty(buffer, n)
    ELSE SummageInner__from_empty(buffer, n)

Moving_reset(cls, calc) ==
    IF cls \in ExtremaClasses
    THEN ExtremaInner__reset(calc)
    ELSE SummageInner__reset(calc)

Moving_fill(cls, calc, fill_val) ==
    IF cls \in ExtremaClasses
    THEN ExtremaInner__fill(calc, fill_val)
    ELSE SummageInner__fill(calc, fill_val, POW2(cls))

Moving_fill_with(cls, calc, gen) ==
    IF cls \in ExtremaClasses
    THEN ExtremaInner__fill_with(calc, gen, MAX(cls))
    ELSE SummageInner__fill_with(calc, gen, POW2(cls))

Moving_advance(cls, calc, input) ==
    IF cls \in ExtremaClasses
    THEN ExtremaInner__advance(calc, input, MAX(cls))
    ELSE SummageInner__advance(calc, input, SQRT(cls), POW2(cls))

Moving_current(cls, calc) ==
    IF cls \in ExtremaClasses
    THEN ExtremaInner__current(calc)
    ELSE SummageInner__current(calc, SQRT(cls))

\* TRUE when a step of the calculator has panicked.
Moving_failed(cls, calc) == cls \in ExtremaClasses /\ calc.ext_state.err

\* ----------------------------------------------------- buffered wrapper
\* Buffered$clsState: Dummy | Uninit(Fixed) | Active($cls).

Dummy == [tag |-> "Dummy"]

Uninit(ring_buffer) == [tag |-> "Uninit", ring_buffer |-> ring_buffer]

Active(calc) == [tag |-> "Active", calc |-> calc]

Buffered__promote_inner(cls, st) ==
    IF st.tag = "Uninit"
    THEN Active(Moving_from(cls, into_buffer(st.ring_buffer)))
    ELSE st

\* __promote that swaps the state out and never writes the new one back.
Buffered__promote_leaves_dummy(cls, st) == Dummy

\* mem::swap with Dummy, __promote_inner, write back.
Buffered__promote(cls, st) == Buffered__promote_inner(cls, st)

\* __from with the head one slot in.
Buffered__from_head1(buffer) == Uninit(from_offset(buffer, 1))

Buffered__from(buffer) == Uninit(from_offset(buffer, 0))

Buffered__from_full(cls, buffer) == Buffered__promote(cls, Buffered__from(buffer))

\* __reset_inner that hands the ring buffer on with its head where it was.
Buffered__reset_inner_keeps_head(st) ==
    IF st.tag = "Dummy" THEN st
    ELSE IF st.tag = "Active" THEN Uninit(st.calc.window)
    ELSE Uninit(st.ring_buffer)

Buffered__reset_inner(st) ==
    IF st.tag = "Dummy" THEN st
    ELSE IF st.tag = "Active" THEN Buffered__from(into_buffer(st.calc.window))
    ELSE Buffered__from(into_buffer(st.ring_buffer))

Buffered__reset(st) == Buffered__reset_inner(st)

\* __fill that leaves out the promotion of a filled Uninit ring.
Buffered__fill_no_promote(cls, st, fill_val) ==
    IF st.tag = "Dummy" THEN st
    ELSE IF st.tag = "Uninit"
    THEN Uninit(FixedFill(st.ring_buffer, fill_val))
    ELSE Active(Moving_fill(cls, st.calc, fill_val))

Buffered__fill(cls, st, fill_val) ==
    IF st.tag = "Dummy" THEN st
    ELSE IF st.tag = "Uninit"
    THEN Buffered__promote(cls, Uninit(FixedFill(st.ring_buffer, fill_val)))
    ELSE Active(Moving_fill(cls, st.calc, fill_val))

\* __fill_with that refills an Active calculator by way of its ring buffer
\* and leaves the promotion out.
Buffered__fill_with_demotes(cls, st, gen) ==
    IF st.tag = "Dummy" THEN st
    ELSE IF st.tag = "Uninit"
    THEN Buffered__promote(cls, Uninit(FixedFillWith(st.ring_buffer, gen)))
    ELSE Uninit(FixedFillWith(st.calc.window, gen))

Buffered__fill_with(cls, st, gen) ==
    IF st.tag = "Dummy" THEN st
    ELSE IF st.tag = "Uninit"
    THEN Buffered__promote(cls, Uninit(FixedFillWith(st.ring_buffer, gen)))
    ELSE Active(Moving_fill_with(cls, st.calc, gen))

Buffered__is_active(st) == st.tag = "Active"

\* __advance that promotes after every push, the flag unread.
Buffered__advance_eager(cls, st, input) ==
    IF st.tag = "Active" THEN Active(Moving_advance(cls, st.calc, input))
    ELSE IF st.tag = "Uninit"
    THEN Buffered__promote(cls, Uninit(push_with_flag(st.ring_buffer, input).fixed))
    ELSE st

Buffered__advance(cls, st, input) ==
    IF st.tag = "Active" THEN Active(Moving_advance(cls, st.calc, input))
    ELSE IF st.tag = "Uninit"
    THEN LET p == push_with_flag(st.ring_buffer, input)
         IN  IF p.was_reset
             THEN Buffered__promote(cls, Uninit(p.fixed))
             ELSE Uninit(p.fixed)
    ELSE st

\* __current that answers for an Uninit ring as if it were a full window.
Buffered__current_of_ring(cls, st) ==
    IF st.tag = "Active" THEN Some(Moving_current(cls, st.calc))
    ELSE IF st.tag = "Uninit"
    THEN Some(Moving_current(cls, Moving_from(cls, into_buffer(st.ring_buffer))))
    ELSE None

Buffered__current(cls, st) ==
    IF st.tag = "Active" THEN Some(Moving_current(cls, st.calc)) ELSE None

\* --------------------------------------------------- current and process
\* A call is modelled by the receiver it leaves behind (`self`) and the value
\* it returns (`out`).

\* current that takes the window out of the calculator as it answers.
Moving_current_call_takes(cls, calc) ==
    [self |-> Moving_reset(cls, calc), out |-> Moving_current(cls, calc)]

\* $cls::current(&self): self.0.__current()
Moving_current_call(cls, calc) ==
    [self |-> calc, out |-> Moving_current(cls, calc)]

\* Buffered$cls::current(&self): self.0.__current()
Buffered_current_call(cls, st) ==
    [self |-> st, out |-> Buffered__current(cls, st)]

\* __process that reads the output before it advances.
ExtremaInner__process_stale(e, input, is_max) ==
    [self |-> ExtremaInner__advance(e, input, is_max),
     out  |-> ExtremaInner__current(e)]

\* ExtremaInner::__process: self.__advance(input); self.__current()
ExtremaInner__process(e, input, is_max) ==
    LET advanced == ExtremaInner__advance(e, input, is_max)
    IN  [self |-> advanced, out |-> ExtremaInner__current(advanced)]

\* SummageInner::__process: self.__advance(input); self.__current()
SummageInner__process(e, input, sqrt_, pow2_) ==
    LET advanced == SummageInner__advance(e, input, sqrt_, pow2_)
    IN  [self |-> advanced, out |-> SummageInner__current(advanced, sqrt_)]

\* The inner engine's __process of calculator `cls`.
Inner__process(cls, calc, input) ==
    IF cls \in ExtremaClasses
    THEN ExtremaInner__process(calc, input, MAX(cls))
    ELSE SummageInner__process(calc, input, SQRT(cls), POW2(cls))

\* impl StatefulProcessor for $cls: advance and current forward to Self.
StatefulProcessor_advance(cls, calc, input) == Moving_advance(cls, calc, input)

StatefulProcessor_current(cls, calc) == Moving_current_call(cls, calc).out

\* impl StatefulProcessor for Buffered$cls: the same forwarding.
BufferedStatefulProcessor_advance(cls, st, input) == Buffered__advance(cls, st, input)

BufferedStatefulProcessor_current(cls, st) == Buffered_current_call(cls, st).out

\* Processor::process of the blanket impl for every StatefulProcessor:
\* advance(input), then current().
Processor_process(cls, calc, input) ==
    LET advanced == StatefulProcessor_advance(cls, calc, input)
    IN  [self |-> advanced, out |-> StatefulProcessor_current(cls, advanced)]

BufferedProcessor_process(cls, st, input) ==
    LET advanced == BufferedStatefulProcessor_advance(cls, st, input)
    IN  [self |-> advanced, out |-> BufferedStatefulProcessor_current(cls, advanced)]

\* $cls::process(input): Processor::process(self, input)
Moving_process(cls, calc, input) == Processor_process(cls, calc, input)

\* Buffered$cls::process(input): Processor::process(self, input)
Buffered_process(cls, st, input) == BufferedProcessor_process(cls, st, input)

\* ---------------------------------------------------------- construction
\* A constructor gives a calculator (`value`) or panics with a message.

EMPTY_BUFFER_MSG == "buffer cannot be empty"

Built(value) == [panic |-> None, value |-> Some(value)]

Panics(msg) == [panic |-> Some(msg), value |-> None]

\* impl From<B> for $cls: assert!(buffer.as_ref().len() > 0); Inner::__from
cls_from(cls, buffer) ==
    IF Len(buffer) > 0
    THEN Built(Moving_from(cls, buffer))
    ELSE Panics(EMPTY_BUFFER_MSG)

\* $cls::from_empty: assert!(buffer.as_ref().len() > 0); Inner::__from_empty
cls_from_empty(cls, buffer, n) ==
    IF Len(buffer) > 0
    THEN Built(Moving_from_empty(cls, buffer, n))
    ELSE Panics(EMPTY_BUFFER_MSG)

\* from for Buffered$cls with the assertion left out.
Buffered_from_unchecked(cls, buffer) == Built(Buffered__from(buffer))

\* impl From<B> for Buffered$cls: assert!(buffer.as_ref().len() > 0); __from
Buffered_from(cls, buffer) ==
    IF Len(buffer) > 0
    THEN Built(Buffered__from(buffer))
    ELSE Panics(EMPTY_BUFFER_MSG)

\* Buffered$cls::from_full: __from, then __promote, whose $cls::from(buffer)
\* carries the assertion.
Buffered_from_full(cls, buffer) ==
    LET new == Buffered__from(buffer)
        made == cls_from(cls, into_buffer(new.ring_buffer))
    IN  IF made.panic # None
        THEN Panics(made.panic[1])
        ELSE Built(Active(made.value[1]))

\* ------------------------------------------------------------ the state

VARIABLES
    cls,      \* the calculator class under test
    calc,     \* Spec: the Moving calculator ($cls.0)
    naive,    \* Spec: the frames a plain FIFO of the same length holds, oldest first
    origin,   \* Spec: the constructor or (re)initialising call that came last
    fed,      \* the frames advanced since from_empty or reset, the last C of them at
              \* most; idle after from, fill and fill_with
    last,     \* Spec: the call that came last
    ret,      \* Spec: Some(what the last process returned), else None
    rounded,  \* SpecSum: TRUE once an addition, subtraction or product that made
              \* the running sum was rounded, until the sum is built anew
    bst,      \* SpecBuf, SpecPair: the state of a Buffered calculator
    bst2,     \* SpecPair: a second wrapper, built from another buffer
    bwin,     \* SpecBuf: the frames supplied since construction or reset (the fill's
              \* frames, then the advanced ones), the last C of them at most
    bn,       \* SpecBuf: how many advance/process calls came since `borigin`, capped at C + 1
    bprev,    \* SpecBuf: the tag of the state the last call started from
    borigin,  \* SpecBuf: from, from_full, reset, fill or fill_with, whichever came last
    blast,    \* SpecBuf: the call that came last
    bret,     \* SpecBuf: Some(what the last process returned), else None
    fx,       \* SpecRing: the Fixed ring buffer
    rq,       \* SpecRing: the frames a plain FIFO holds, oldest first
    rsup,     \* SpecRing: the frames of the last from/fill/fill_with followed by the
              \* frames pushed since, kept for C + 1 pushes and until an indexed write
    rk,       \* SpecRing: pushes since the last from/fill/fill_with (folded above 2C)
    rstart,   \* SpecRing: head as the last from/from_offset/fill/fill_with left it
    rorigin,  \* SpecRing: from_offset, fill or fill_with, whichever came last
    rprev,    \* SpecRing: head before the last call
    rlast,    \* SpecRing: the call that came last
    rret,     \* SpecRing: what the last call returned
    rflag,    \* SpecRing: the flag the last push_with_flag returned
    rexp,     \* SpecRing: Some(the oldest frame of the FIFO before the last push)
    ridx,     \* SpecRing: the index the last indexed access was given
    rcalls,   \* SpecRing: how often the last fill_with called its closure
    it,       \* SpecRing: the live iterator, if any
    itf,      \* SpecRing: the frames next() yielded, in order
    itb,      \* SpecRing: the frames next_back() yielded, in order
    itn,      \* SpecRing: calls made on the live iterator
    ctor,     \* SpecNew: the constructor called
    cbuf,     \* SpecNew: the buffer handed to the constructor
    built,    \* SpecNew: what the constructor gave: a calculator or a panic
    cout,     \* SpecNew: Some(what current() of the built calculator returned)
    candidate, \* SpecCmp: the first argument of surpasses
    incumbent, \* SpecCmp: the second argument of surpasses (target)
    is_max,   \* SpecCmp: the const generic MAX of the call
    verdict,  \* SpecCmp: Some(what surpasses returned)
    calc2,    \* SpecTwin: a second calculator of the same class and length
    agree,    \* SpecTwin: the channel on which the two calculators are fed alike
    adaptor,  \* SpecSig: "moving" (Process over $cls) or "buffered" (ProcessLazy over Buffered$cls)
    sig,      \* SpecSig: the frames the input signal has yet to yield
    sn,       \* SpecSig: the length of the input signal
    proc,     \* SpecSig: the processor of the adaptor
    syield,   \* SpecSig: how many frames the adaptor has yielded
    sfirst,   \* SpecSig: how many input frames were consumed when it yielded its first
    sret,     \* SpecSig: what the last next() returned, Some(frame) or None
    cum,      \* SpecCum: the cumulative calculator ($cls.0)
    cn,       \* SpecCum: the frames advanced since creation or the last reset
    clast,    \* SpecCum: the call that came last
    cret      \* SpecCum: what the last call returned

engine_vars == <<calc, naive, origin, fed, last, ret, rounded>>

buf_vars == <<bst, bst2, bwin, bn, bprev, borigin, blast, bret>>

ring_vars == <<fx, rq, rsup, rk, rstart, rorigin, rprev, rlast, rret, rflag, rexp, ridx, rcalls, it, itf, itb, itn>>

\* The variables of the specifications that follow SpecCalls.
new_vars == <<ctor, cbuf, built, cout>>

cmp_vars == <<candidate, incumbent, is_max, verdict>>

twin_vars == <<calc2, agree>>

sig_vars == <<adaptor, sig, sn, proc, syield, sfirst, sret>>

cum_vars == <<cum, cn, clast, cret>>

\* The variables of SpecSig and of the specifications after it.
late_vars == <<sig_vars, cum_vars>>

aux_vars == <<new_vars, cmp_vars, twin_vars, late_vars>>

vars == <<cls, calc, naive, origin, fed, last, ret, rounded, bst, bst2, bwin, bn, bprev, borigin, blast, bret,
          fx, rq, rsup, rk, rstart, rorigin, rprev, rlast, rret, rflag, rexp, ridx, rcalls, it, itf, itb, itn,
          ctor, cbuf, built, cout, candidate, incumbent, is_max, verdict, calc2, agree,
          adaptor, sig, sn, proc, syield, sfirst, sret, cum, cn, clast, cret>>

\* The part of the state a specification does not use.
Idle == "idle"

EngineIdle ==
    /\ calc = Idle /\ naive = Idle /\ origin = Idle
    /\ fed = Idle /\ last = Idle /\ ret = Idle /\ rounded = Idle

\* No second wrapper.
Absent == [tag |-> "Absent"]

BufIdle ==
    /\ bst = Absent /\ bst2 = Absent /\ bwin = Idle /\ bn = Idle /\ bprev = Idle
    /\ borigin = Idle /\ blast = Idle /\ bret = Idle

RingIdle ==
    /\ fx = Idle /\ rq = Idle /\ rsup = Idle /\ rk = Idle /\ rstart = Idle
    /\ rorigin = Idle /\ rprev = Idle
    /\ rlast = Idle /\ rret = Idle /\ rflag = Idle /\ rexp = Idle /\ ridx = Idle
    /\ rcalls = Idle /\ it = Idle /\ itf = Idle /\ itb = Idle /\ itn = Idle

NewIdle ==
    /\ ctor = Idle /\ cbuf = Idle /\ built = Idle /\ cout = Idle

CmpIdle ==
    /\ candidate = Idle /\ incumbent = Idle /\ is_max = Idle /\ verdict = Idle

TwinIdle == calc2 = Idle /\ agree = Idle

SigIdle ==
    /\ adaptor = Idle /\ sig = Idle /\ sn = Idle /\ proc = Idle
    /\ syield = Idle /\ sfirst = Idle /\ sret = Idle

CumIdle == cum = Idle /\ cn = Idle /\ clast = Idle /\ cret = Idle

LateIdle == SigIdle /\ CumIdle

AuxIdle == NewIdle /\ CmpIdle /\ TwinIdle /\ LateIdle

\* ---------------------------------------------------------- ghost helpers

\* The last n elements of a sequence (all of it when it is shorter).
LastN(seq, n) ==
    IF Len(seq) <= n THEN seq ELSE SubSeq(seq, Len(seq) - n + 1, Len(seq))

Repeat(x, n) == [i \in 1..n |-> x]

\* A closure handed to fill_with: it yields a tape of samples, channel ch
\* reading the tape ch - 1 places ahead (cyclically).  Gen(t, n) is the tuple
\* of the frames its calls return, in call order.
Tapes(c) == [1..c -> Values]

Gen(t, n) == [i \in 1..Len(t) |-> [ch \in 1..n |-> t[((i + ch - 2) % Len(t)) + 1]]]

\* ---------------------------------- Spec: a moving extrema calculator
\* MovingMin / MovingMax built with from(buffer) and then advanced.

Len_ == capacity(calc.window)

Init ==
    /\ cls \in ExtremaClasses
    /\ \E c \in Lens : \E buffer \in Buffers(c) :
         /\ calc = Moving_from(cls, buffer)
         /\ naive = buffer
    /\ origin = "from"
    /\ last = "from"
    /\ fed = Idle
    /\ ret = None
    /\ rounded = FALSE
    /\ BufIdle
    /\ AuxIdle
    /\ RingIdle

Running == ~Moving_failed(cls, calc)

SumClasses == Classes \ ExtremaClasses

\* The sample the window stores for a raw sample x.
Stored(x) == IF POW2(cls) THEN x * x ELSE x

\* TRUE when, for the running sum `sum`, adding the new frame and taking the
\* evicted one off are both exact.
AdvanceIsExact(sum, input, evicted) ==
    \A ch \in DOMAIN sum :
        LET a == sum[ch] + Stored(input[ch])
        IN  fl(a) = a /\ fl(a - Stored(evicted[ch])) = a - Stored(evicted[ch])

RECURSIVE FoldIsExact(_, _, _, _)
\* TRUE when summing channel ch of the frames from the i-th on, front to
\* back onto acc, rounds nowhere.
FoldIsExact(frames, ch, i, acc) ==
    IF i > Len(frames) THEN TRUE
    ELSE LET a == acc + Stored(frames[i][ch])
         IN  fl(a) = a /\ FoldIsExact(frames, ch, i + 1, a)

RoundedAfterAdvance(input) ==
    rounded \/ (cls \in SumClasses /\ ~AdvanceIsExact(calc.sum, input, Head(naive)))

\* What `fed` becomes when input is advanced (it is kept only by the
\* specifications that start it as a sequence).
FedAfter(input) ==
    IF fed = Idle THEN fed ELSE LastN(fed \o <<input>>, Len_)

\* $cls::advance(input)
Advance(input) ==
    /\ Running
    /\ calc' = Moving_advance(cls, calc, input)
    /\ naive' = Tail(naive) \o <<input>>
    /\ fed' = FedAfter(input)
    /\ last' = "advance"
    /\ ret' = None
    /\ rounded' = RoundedAfterAdvance(input)
    /\ UNCHANGED <<cls, aux_vars, origin, buf_vars, ring_vars>>

\* $cls::process(input): advance, then current.
Process(input) ==
    /\ Running
    /\ calc' = Moving_advance(cls, calc, input)
    /\ ret' = Some(Moving_current(cls, calc'))
    /\ naive' = Tail(naive) \o <<input>>
    /\ fed' = FedAfter(input)
    /\ last' = "process"
    /\ rounded' = RoundedAfterAdvance(input)
    /\ UNCHANGED <<cls, aux_vars, origin, buf_vars, ring_vars>>

Next ==
    \/ \E input \in Frames : Advance(input)
    \/ \E input \in Frames : Process(input)

Spec == Init /\ [][Next]_vars

\* ------------------------- SpecEmpty: an extrema calculator that starts empty
\* MovingMin / MovingMax built with from_empty(buffer), advanced and reset.

InitEmpty ==
    /\ cls \in ExtremaClasses
    /\ \E c \in Lens : \E buffer \in Buffers(c) :
         /\ calc = Moving_from_empty(cls, buffer, NCh)
         /\ naive = Repeat(FrameEQUILIBRIUM(NCh), c)
    /\ origin = "from_empty"
    /\ last = "from_empty"
    /\ fed = <<>>
    /\ ret = None
    /\ rounded = FALSE
    /\ BufIdle
    /\ AuxIdle
    /\ RingIdle

\* $cls::reset()
Reset ==
    /\ Running
    /\ calc' = Moving_reset(cls, calc)
    /\ naive' = Repeat(FrameEQUILIBRIUM(Len(naive[1])), Len_)
    /\ origin' = "reset"
    /\ fed' = <<>>
    /\ last' = "reset"
    /\ ret' = None
    /\ rounded' = FALSE
    /\ UNCHANGED <<cls, aux_vars, buf_vars, ring_vars>>

NextEmpty ==
    \/ \E input \in Frames : Advance(input)
    \/ \E input \in Frames : Process(input)
    \/ Reset

SpecEmpty == InitEmpty /\ [][NextEmpty]_vars

\* ------------------------------------------------ naive reference values

\* The samples of channel ch in a tuple of frames.
ChannelSet(frames, ch) == {frames[i][ch] : i \in 1..Len(frames)}

\* The true maximum (minimum) of a non-empty set of comparable samples.
TrueExt(S, isMax) ==
    CHOOSE v \in S : \A w \in S : IF isMax THEN v >= w ELSE v <= w

\* The extremum, channel by channel, of a non-empty tuple of frames.
NaiveExt(frames, isMax) ==
    [ch \in 1..NCh |-> TrueExt(ChannelSet(frames, ch), isMax)]

\* Some step of the calculator reported the Diff d in some channel.
SomeDiff(d) == \E ch \in 1..NCh : calc.ext_state.diffs[ch] = d

\* ------------------------------------------------------------------- C1
\* C1: a MovingMin / MovingMax built with from(buffer) reports, after any
\* advance/process calls and in every channel, the minimum / maximum of the
\* C most recent frames of "buffer contents, then the pushed frames"; no
\* step panics on the way.
C1_MovingExtremaIsWindowExtremum ==
    /\ ~calc.ext_state.err
    /\ Moving_current(cls, calc) = NaiveExt(naive, MAX(cls))
    /\ FixedIter(calc.window) = naive

\* C1 witness: a full-length min window whose frontier was just evicted and
\* whose horizon was promoted, the other channel keeping its frontier.
C1_Witness ==
    /\ cls = "MovingMin"
    /\ Len_ = MaxLen
    /\ last = "process"
    /\ calc.ext_state.diffs[1] = "Promoted"
    /\ calc.ext_state.diffs[2] = "NoChange"
    /\ ret = Some(NaiveExt(naive, FALSE))

\* ------------------------------------------------------------------- C2
\* C2: right after MovingMin::from / MovingMax::from, current() is, in every
\* channel, the minimum / maximum of all frames of the buffer, and the
\* buffer is stored as given, head at 0 (nothing was evicted).
C2_FromFoldsWholeBuffer ==
    last = "from" =>
        /\ calc.window = [head |-> 0, buffer |-> naive]
        /\ \A ch \in 1..NCh :
             LET cur == Moving_current(cls, calc)[ch]
             IN  /\ cur \in ChannelSet(calc.window.buffer, ch)
                 /\ \A i \in 1..Len_ :
                      IF MAX(cls) THEN calc.window.buffer[i][ch] <= cur
                                  ELSE calc.window.buffer[i][ch] >= cur
        /\ calc.ext_state.cursor_pos = Len_ - 1

\* C2 witness: a max window of full length whose maximum is neither the
\* first nor the last frame of the buffer.
C2_Witness ==
    /\ last = "from"
    /\ cls = "MovingMax"
    /\ Len_ = MaxLen
    /\ Len_ >= 3
    /\ \A ch \in 1..NCh :
         /\ naive[2][ch] > naive[1][ch]
         /\ naive[2][ch] > naive[Len_][ch]
         /\ Moving_current(cls, calc)[ch] = naive[2][ch]

\* ------------------------------------------------------------------ C10
\* The calculator was created empty or reset, and only advanced since.
StartedEmpty == origin \in {"from_empty", "reset"}

\* The window a calculator that started empty is expected to cover after
\* the frames of `fed`: the equilibrium frames it was padded with, then fed.
PaddedWindow ==
    LastN(Repeat(FrameEQUILIBRIUM(NCh), Len_) \o fed, Len_)

\* C10 as stated: after k >= 1 advances of an engine that started empty,
\* current() is the min/max of exactly the last min(k, C) frames pushed, the
\* equilibrium padding taking no part.
C10_PaddingTakesNoPart ==
    (StartedEmpty /\ Len(fed) >= 1) =>
        Moving_current(cls, calc) = NaiveExt(fed, MAX(cls))

\* C10 amended: after k advances of an engine that started empty, current()
\* is the min/max of the last C frames of "C equilibrium frames, then the k
\* pushed frames": the C - k padding frames take part while k < C.
C10_PaddingTakesPart ==
    StartedEmpty =>
        /\ ~calc.ext_state.err
        /\ FixedIter(calc.window) = PaddedWindow
        /\ Moving_current(cls, calc) = NaiveExt(PaddedWindow, MAX(cls))

\* C10 witness: a reset min window fed fewer than C frames, all above the
\* equilibrium, still reports the equilibrium of its padding.
C10_Witness ==
    /\ origin = "reset"
    /\ cls = "MovingMin"
    /\ Len(fed) >= 1
    /\ Len(fed) < Len_
    /\ \A i \in 1..Len(fed) : \A ch \in 1..NCh : fed[i][ch] > EQUILIBRIUM
    /\ Moving_current(cls, calc) = FrameEQUILIBRIUM(NCh)

\* --------------------------------------- SpecBuf: a Buffered calculator
\* Buffered$cls over mono frames, built with from(buffer) or
\* from_full(buffer), then advanced, processed, filled and reset.

MonoFrames == [1..1 -> Values]

MonoBuffers(c) == [1..c -> MonoFrames]

\* The window length of a Buffered calculator.
BLen(st) ==
    IF st.tag = "Uninit" THEN capacity(st.ring_buffer) ELSE capacity(st.calc.window)

InitBuf ==
    /\ cls \in Classes
    /\ \E c \in Lens : \E buffer \in MonoBuffers(c) :
         \/ /\ bst = Buffered__from(buffer)
            /\ bwin = <<>>
            /\ borigin = "from"
         \/ /\ bst = Buffered__from_full(cls, buffer)
            /\ bwin = buffer
            /\ borigin = "from_full"
    /\ blast = borigin
    /\ bn = 0
    /\ bprev = "None"
    /\ bret = None
    /\ bst2 = Absent
    /\ EngineIdle
    /\ AuxIdle
    /\ RingIdle

BRunning == bst.tag = "Active" => ~Moving_failed(cls, bst.calc)

\* The second wrapper takes the same call when there is one.
Both(op(_)) == bst2' = IF bst2.tag = "Absent" THEN bst2 ELSE op(bst2)

\* Buffered$cls::advance(input)
BAdvance(input) ==
    LET op(st) == Buffered__advance(cls, st, input)
    IN  /\ BRunning
        /\ bst' = op(bst)
        /\ Both(op)
        /\ bwin' = LastN(bwin \o <<input>>, BLen(bst))
        /\ bn' = IF bn > BLen(bst) THEN bn ELSE bn + 1
        /\ bprev' = bst.tag
        /\ blast' = "advance"
        /\ bret' = None
        /\ UNCHANGED <<cls, aux_vars, borigin, engine_vars, ring_vars>>

\* Buffered$cls::process(input): advance, then current.
BProcess(input) ==
    LET op(st) == Buffered__advance(cls, st, input)
    IN  /\ BRunning
        /\ bst' = op(bst)
        /\ Both(op)
        /\ bret' = Some(Buffered__current(cls, bst'))
        /\ bwin' = LastN(bwin \o <<input>>, BLen(bst))
        /\ bn' = IF bn > BLen(bst) THEN bn ELSE bn + 1
        /\ bprev' = bst.tag
        /\ blast' = "process"
        /\ UNCHANGED <<cls, aux_vars, borigin, engine_vars, ring_vars>>

\* Buffered$cls::reset()
BReset ==
    LET op(st) == Buffered__reset(st)
    IN  /\ BRunning
        /\ bst' = op(bst)
        /\ Both(op)
        /\ bwin' = <<>>
        /\ borigin' = "reset"
        /\ bn' = 0
        /\ bprev' = bst.tag
        /\ blast' = "reset"
        /\ bret' = None
        /\ UNCHANGED <<cls, aux_vars, engine_vars, ring_vars>>

\* Buffered$cls::fill(fill_val)
BFill(fill_val) ==
    LET op(st) == Buffered__fill(cls, st, fill_val)
    IN  /\ BRunning
        /\ bst' = op(bst)
        /\ Both(op)
        /\ bwin' = Repeat(fill_val, BLen(bst))
        /\ borigin' = "fill"
        /\ bn' = 0
        /\ bprev' = bst.tag
        /\ blast' = "fill"
        /\ bret' = None
        /\ UNCHANGED <<cls, aux_vars, engine_vars, ring_vars>>

\* Buffered$cls::fill_with(fill_func)
BFillWith(t) ==
    LET op(st) == Buffered__fill_with(cls, st, Gen(t, 1))
    IN  /\ BRunning
        /\ bst' = op(bst)
        /\ Both(op)
        /\ bwin' = Gen(t, 1)
        /\ borigin' = "fill_with"
        /\ bn' = 0
        /\ bprev' = bst.tag
        /\ blast' = "fill_with"
        /\ bret' = None
        /\ UNCHANGED <<cls, aux_vars, engine_vars, ring_vars>>

NextBuf ==
    \/ \E input \in MonoFrames : BAdvance(input)
    \/ \E input \in MonoFrames : BProcess(input)
    \/ BReset
    \/ \E fill_val \in MonoFrames : BFill(fill_val)
    \/ \E t \in Tapes(BLen(bst)) : BFillWith(t)

SpecBuf == InitBuf /\ [][NextBuf]_vars

\* ------------------- SpecPair: two Buffered calculators, the same calls
\* Both are built with from, over buffers of one length and any contents,
\* and are given the same advance, fill and reset calls.

InitPair ==
    /\ cls \in Classes
    /\ \E c \in Lens : \E buffer \in MonoBuffers(c), other \in MonoBuffers(c) :
         /\ bst = Buffered__from(buffer)
         /\ bst2 = Buffered__from(other)
    /\ bwin = <<>>
    /\ borigin = "from"
    /\ blast = "from"
    /\ bn = 0
    /\ bprev = "None"
    /\ bret = None
    /\ EngineIdle
    /\ AuxIdle
    /\ RingIdle

NextPair ==
    \/ \E input \in MonoFrames : BAdvance(input)
    \/ BReset
    \/ \E fill_val \in MonoFrames : BFill(fill_val)

SpecPair == InitPair /\ [][NextPair]_vars

\* ------------------------------------------- naive reference aggregates

RECURSIVE SumOver(_, _, _)
SumOver(frames, ch, squared) ==
    IF frames = <<>> THEN 0
    ELSE (IF squared THEN frames[1][ch] * frames[1][ch] ELSE frames[1][ch])
         + SumOver(Tail(frames), ch, squared)

\* What a calculator of class c is to report for a window holding exactly
\* the raw frames `frames`: computed from the frames alone.
NaiveAgg(c, frames) ==
    [ch \in DOMAIN frames[1] |->
        CASE c = "MovingMin" -> TrueExt(ChannelSet(frames, ch), FALSE)
          [] c = "MovingMax" -> TrueExt(ChannelSet(frames, ch), TRUE)
          [] c = "MovingMean" -> div_sample(SumOver(frames, ch, FALSE), Len(frames))
          [] c = "MovingMs" -> div_sample(SumOver(frames, ch, TRUE), Len(frames))
          [] c = "MovingRms" -> sqrt(div_sample(SumOver(frames, ch, TRUE), Len(frames)))]

\* What the wrapper answers in the current state.
BActive == Buffered__is_active(bst)

BCurrent == Buffered__current(cls, bst)

\* The last call was an advance or a process.
BPushed == blast \in {"advance", "process"}

\* ------------------------------------------------------------------- C3
\* C3: a Buffered calculator built with from(buffer) is inactive, with
\* current() = None, after each of its first C - 1 advances, and is active
\* from the C-th advance on, current() then being Some(the aggregate of
\* the last C frames advanced): on the C-th advance, of exactly those C.
C3_ActiveExactlyOnCthAdvance ==
    borigin = "from" =>
        IF bn < BLen(bst)
        THEN /\ ~BActive
             /\ BCurrent = None
             /\ (blast = "process" => bret = Some(None))
        ELSE /\ BActive
             /\ Len(bwin) = BLen(bst)
             /\ BCurrent = Some(NaiveAgg(cls, bwin))
             /\ (blast = "process" => bret = Some(BCurrent))

\* C3 witness: the C-th advance after from has just activated a wrapper of
\* full length.
C3_Witness ==
    /\ borigin = "from"
    /\ BLen(bst) = MaxLen
    /\ bn = BLen(bst)
    /\ blast = "advance"
    /\ bprev = "Uninit"
    /\ BActive
    /\ BCurrent = Some(NaiveAgg(cls, bwin))

\* ------------------------------------------------------------------- C4
\* C4: in every reachable state current() is Some exactly when is_active()
\* is true: None while Uninit, and once Active the current value of the
\* wrapped calculator, which is the aggregate of the frames supplied.
C4_CurrentIsSomeIffActive ==
    /\ bst.tag \in {"Uninit", "Active"}
    /\ (BCurrent # None) <=> BActive
    /\ bst.tag = "Uninit" => BCurrent = None
    /\ BActive => /\ BCurrent = Some(Moving_current(cls, bst.calc))
                  /\ ~Moving_failed(cls, bst.calc)
                  /\ BCurrent[1] = NaiveAgg(cls, bwin)
    /\ blast = "process" => ((bret[1] # None) <=> BActive)

\* C4 witness: a process call on a wrapper that is still filling returned
\* None.
C4_Witness ==
    /\ blast = "process"
    /\ bst.tag = "Uninit"
    /\ bn >= 1
    /\ bret = Some(None)
    /\ BCurrent = None

\* ------------------------------------------------------------------- C5
\* C5: after reset() from any state the wrapper is inactive with
\* current() = None and keeps nothing: it is active again exactly from the
\* C-th advance after the reset on, with the aggregate of the last C frames
\* advanced since the reset.
C5_ResetDiscardsEverything ==
    borigin = "reset" =>
        IF bn < BLen(bst)
        THEN /\ ~BActive
             /\ BCurrent = None
             /\ bst.ring_buffer.head = bn
             /\ SubSeq(bst.ring_buffer.buffer, 1, bn) = bwin
        ELSE /\ BActive
             /\ Len(bwin) = BLen(bst)
             /\ BCurrent = Some(NaiveAgg(cls, bwin))

\* C5 witness: a wrapper reset while it was Uninit with frames already fed
\* is still inactive one advance short of C.
C5_Witness ==
    /\ borigin = "reset"
    /\ BLen(bst) = MaxLen
    /\ bn = BLen(bst) - 1
    /\ bn >= 1
    /\ ~BActive

\* C5 second witness state: the C-th advance after a reset activates.
C5_WitnessActive ==
    /\ borigin = "reset"
    /\ BLen(bst) = MaxLen
    /\ bn = BLen(bst)
    /\ bprev = "Uninit"
    /\ BActive

\* ------------------------------------------------------------------- C6
\* C6: fill(v) and fill_with(g), from Uninit as from Active, leave the
\* wrapper active at once with current() = Some(aggregate of C copies of v,
\* resp. of the C generated frames); afterwards only the filled frames and
\* the frames advanced since count, the last C of them.
C6_FillActivatesAtOnce ==
    borigin \in {"fill", "fill_with"} =>
        /\ BActive
        /\ Len(bwin) = BLen(bst)
        /\ BCurrent = Some(NaiveAgg(cls, bwin))
        /\ FixedIter(bst.calc.window) =
             [i \in 1..Len(bwin) |-> pow2_frame(bwin[i], POW2(cls))]

\* C6 witness: fill_with on a wrapper that was still Uninit, the generated
\* frames not all equal.
C6_Witness ==
    /\ blast = "fill_with"
    /\ bprev = "Uninit"
    /\ BLen(bst) = MaxLen
    /\ BActive
    /\ \E i \in 1..Len(bwin) : bwin[i] # bwin[1]
    /\ BCurrent = Some(NaiveAgg(cls, bwin))

\* ------------------------------------------------------------------- C7
\* C7: a call made on an Active wrapper leaves it Active unless the call is
\* reset(), and reset() always leaves it inactive.
C7_ActiveUntilReset ==
    /\ (bprev = "Active" /\ blast # "reset") => BActive
    /\ blast = "reset" => ~BActive

\* C7 witness: an Active wrapper was advanced and is Active.
C7_Witness ==
    /\ bprev = "Active"
    /\ blast = "advance"
    /\ BActive
    /\ bn > BLen(bst)

\* ------------------------------------------------------------------- C8
\* C8: two wrappers built with from over different buffers of one length
\* and given the same calls agree on is_active() and on current() after
\* every call.
C8_InitialContentsDoNotMatter ==
    bst2.tag # "Absent" =>
        /\ Buffered__is_active(bst2) = Buffered__is_active(bst)
        /\ Buffered__current(cls, bst2) = Buffered__current(cls, bst)

\* C8 witness: one advance short of activation the two rings still differ
\* in the slot not yet overwritten.
C8_Witness ==
    /\ bst2.tag = "Uninit"
    /\ bst.tag = "Uninit"
    /\ blast = "advance"
    /\ bn = BLen(bst) - 1
    /\ bst.ring_buffer # bst2.ring_buffer

\* C8 second witness state: both activated by the same advance.
C8_WitnessActive ==
    /\ bst2.tag = "Active"
    /\ BActive
    /\ bprev = "Uninit"
    /\ blast = "advance"
    /\ BLen(bst) = MaxLen

\* ------------------------------------------------------------------- C9
\* C9 as stated: the advance that takes a wrapper from Uninit to Active is
\* the (C+1)-th push after construction or reset.
C9_ActivationOnPushCPlus1 ==
    (bprev = "Uninit" /\ BActive /\ BPushed) => bn = BLen(bst) + 1

\* C9 amended: the advance that takes a wrapper from Uninit to Active is the
\* C-th push after construction or reset, the push that wraps the ring (head
\* back at 0); no earlier push activates and the C-th always does.
C9_ActivationOnPushC ==
    /\ (bprev = "Uninit" /\ BActive /\ BPushed) =>
          /\ bn = BLen(bst)
          /\ bst.calc.window.head = 0
    /\ (borigin \in {"from", "reset"} /\ bn = BLen(bst)) =>
          (bprev = "Uninit" /\ BActive)
    /\ (borigin \in {"from", "reset"} /\ bn < BLen(bst)) =>
          (bst.tag = "Uninit" /\ bst.ring_buffer.head = bn)

\* C9 witness: the push that activated a wrapper of full length after a
\* reset.
C9_Witness ==
    /\ bprev = "Uninit"
    /\ BActive
    /\ blast = "process"
    /\ borigin = "reset"
    /\ bn = BLen(bst)
    /\ BLen(bst) = MaxLen

\* ------------------------------------------- SpecRing: the Fixed ring buffer
\* A Fixed over a buffer of mono frames, built with from / from_offset, then
\* pushed, filled, read and written by index, and iterated.  While an
\* iterator lives the buffer is borrowed, so no other call is made.  The
\* reference is a FIFO of the same capacity: a push appends the frame and
\* takes the oldest one out.

NoIter == [head |-> "none", tail |-> "none"]

MaxIndex == 2 * MaxLen

RCap == capacity(fx)

\* The frames of a buffer in logical order when head is h.
Rotated(buffer, h) ==
    [i \in 1..Len(buffer) |-> buffer[((h + i - 1) % Len(buffer)) + 1]]

RingResults(l, r, flag, exp, idx, calls) ==
    /\ rlast' = l /\ rret' = r /\ rflag' = flag /\ rexp' = exp /\ rprev' = fx.head
    /\ ridx' = idx /\ rcalls' = calls

NoIterNext == it' = NoIter /\ itf' = <<>> /\ itb' = <<>> /\ itn' = 0

InitRing ==
    /\ cls = Idle
    /\ EngineIdle
    /\ AuxIdle
    /\ BufIdle
    /\ \E c \in 0..MaxLen : \E buffer \in MonoBuffers(c) : \E h \in 0..MaxLen :
         /\ fx = from_offset(buffer, h)
         /\ rq = Rotated(buffer, fx.head)
         /\ rsup = Rotated(buffer, fx.head)
         /\ rstart = fx.head
    /\ rk = 0
    /\ rorigin = "from_offset"
    /\ rprev = 0
    /\ rlast = "from_offset"
    /\ rret = None
    /\ rflag = FALSE
    /\ rexp = None
    /\ ridx = 0
    /\ rcalls = 0
    /\ it = NoIter /\ itf = <<>> /\ itb = <<>> /\ itn = 0

\* Fixed::push / push_with_flag
RPush(item) ==
    /\ it = NoIter
    /\ LET r == push_with_flag(fx, item)
       IN  /\ fx' = r.fixed
           /\ RingResults("push", Some(FixedPush(fx, item).old_item), r.was_reset,
                          Some(Head(rq \o <<item>>)), 0, 0)
    /\ rq' = Tail(rq \o <<item>>)
    /\ rsup' = IF rsup = <<>> \/ rk > RCap THEN <<>> ELSE rsup \o <<item>>
    /\ rk' = IF rk >= 2 * RCap THEN RCap + 1 ELSE rk + 1
    /\ UNCHANGED <<cls, aux_vars, engine_vars, buf_vars, rstart, rorigin, it, itf, itb, itn>>

\* Fixed::fill
RFill(item) ==
    /\ it = NoIter
    /\ fx' = FixedFill(fx, item)
    /\ rq' = Repeat(item, RCap)
    /\ rsup' = Repeat(item, RCap)
    /\ rk' = 0
    /\ rstart' = 0
    /\ rorigin' = "fill"
    /\ RingResults("fill", None, FALSE, None, 0, 0)
    /\ UNCHANGED <<cls, aux_vars, engine_vars, buf_vars, it, itf, itb, itn>>

\* Fixed::fill_with
RFillWith(t) ==
    /\ it = NoIter
    /\ fx' = FixedFillWith(fx, Gen(t, 1))
    /\ rq' = Gen(t, 1)
    /\ rsup' = Gen(t, 1)
    /\ rk' = 0
    /\ rstart' = 0
    /\ rorigin' = "fill_with"
    /\ RingResults("fill_with", None, FALSE, None, 0,
                   slice_fill_with(fx.buffer, Gen(t, 1), 1).calls)
    /\ UNCHANGED <<cls, aux_vars, engine_vars, buf_vars, it, itf, itb, itn>>

\* Fixed::get(index)
RGet(index) ==
    /\ it = NoIter
    /\ RingResults("get", get(fx, index), FALSE, None, index, 0)
    /\ UNCHANGED <<cls, aux_vars, engine_vars, buf_vars, fx, rq, rsup, rk, rstart, rorigin, it, itf, itb, itn>>

\* if let Some(slot) = fixed.get_mut(index) { *slot = item }
RGetMut(index, item) ==
    /\ it = NoIter
    /\ LET r == get_mut(fx, index, item)
       IN  /\ fx' = r.fixed
           /\ RingResults("get_mut", IF r.found THEN Some(item) ELSE None, FALSE, None, index, 0)
    /\ rq' = IF index < Len(rq) THEN [rq EXCEPT ![index + 1] = item] ELSE rq
    /\ rsup' = <<>>
    /\ UNCHANGED <<cls, aux_vars, engine_vars, buf_vars, rk, rstart, rorigin, it, itf, itb, itn>>

\* Fixed::get_wrapped(index), fixed[index]
RGetWrapped(index) ==
    /\ it = NoIter
    /\ LET r == get_wrapped(fx, index)
       IN  RingResults(IF r.panic THEN "get_wrapped panicked" ELSE "get_wrapped",
                       r.item, FALSE, None, index, 0)
    /\ UNCHANGED <<cls, aux_vars, engine_vars, buf_vars, fx, rq, rsup, rk, rstart, rorigin, it, itf, itb, itn>>

\* *fixed.get_wrapped_mut(index) = item, fixed[index] = item
RIndexMut(index, item) ==
    /\ it = NoIter
    /\ LET r == get_wrapped_mut(fx, index, item)
       IN  /\ fx' = r.fixed
           /\ RingResults(IF r.panic THEN "index_mut panicked" ELSE "index_mut",
                          None, FALSE, None, index, 0)
    /\ rq' = IF Len(rq) = 0 THEN rq ELSE [rq EXCEPT ![(index % Len(rq)) + 1] = item]
    /\ rsup' = <<>>
    /\ UNCHANGED <<cls, aux_vars, engine_vars, buf_vars, rk, rstart, rorigin, it, itf, itb, itn>>

\* Fixed::iter() / iter_mut()
RIter ==
    /\ it = NoIter
    /\ it' = iter(fx)
    /\ itf' = <<>> /\ itb' = <<>> /\ itn' = 0
    /\ RingResults("iter", None, FALSE, None, 0, 0)
    /\ UNCHANGED <<cls, aux_vars, engine_vars, buf_vars, fx, rq, rsup, rk, rstart, rorigin>>

\* Iter::next; calls are followed up to two past the end.
RNext ==
    /\ it # NoIter
    /\ itn <= RCap + 1
    /\ LET r == Iter_next(it)
       IN  /\ it' = r.iter
           /\ itf' = itf \o r.item
           /\ RingResults("next", r.item, FALSE, None, Iter_len(r.iter), 0)
    /\ itn' = itn + 1
    /\ UNCHANGED <<cls, aux_vars, engine_vars, buf_vars, fx, rq, rsup, rk, rstart, rorigin, itb>>

\* Iter::next_back
RNextBack ==
    /\ it # NoIter
    /\ itn <= RCap + 1
    /\ LET r == Iter_next_back(it)
       IN  /\ it' = r.iter
           /\ itb' = itb \o r.item
           /\ RingResults("next_back", r.item, FALSE, None, Iter_len(r.iter), 0)
    /\ itn' = itn + 1
    /\ UNCHANGED <<cls, aux_vars, engine_vars, buf_vars, fx, rq, rsup, rk, rstart, rorigin, itf>>

\* The iterator is dropped and the borrow ends.
RIterDrop ==
    /\ it # NoIter
    /\ NoIterNext
    /\ RingResults("drop", None, FALSE, None, 0, 0)
    /\ UNCHANGED <<cls, aux_vars, engine_vars, buf_vars, fx, rq, rsup, rk, rstart, rorigin>>

NextRing ==
    \/ \E item \in MonoFrames : RPush(item)
    \/ \E item \in MonoFrames : RFill(item)
    \/ \E t \in Tapes(RCap) : RFillWith(t)
    \/ \E index \in 0..MaxIndex : \E item \in MonoFrames : RGetMut(index, item)
    \/ \E index \in 0..MaxIndex : \E item \in MonoFrames : RIndexMut(index, item)

SpecRing == InitRing /\ [][NextRing]_vars

\* SpecIndex: the same ring buffers (every contents and head), read and
\* written by index.
NextIndex ==
    \/ \E index \in 0..MaxIndex : RGet(index)
    \/ \E index \in 0..MaxIndex : \E item \in MonoFrames : RGetMut(index, item)
    \/ \E index \in 0..MaxIndex : RGetWrapped(index)
    \/ \E index \in 0..MaxIndex : \E item \in MonoFrames : RIndexMut(index, item)

SpecIndex == InitRing /\ [][NextIndex]_vars

\* SpecIter: the same ring buffers, iterated from both ends.
NextIter ==
    \/ RIter
    \/ RNext
    \/ RNextBack
    \/ RIterDrop

SpecIter == InitRing /\ [][NextIter]_vars

\* ------------------------------------------------- ring buffer properties

\* The frames of the ring buffer in logical order, read off the raw parts.
RLogical == Rotated(fx.buffer, fx.head)

\* C11: a push writes the frame at head, moves head to (head + 1) mod C and
\* returns the oldest stored frame: the k-th push after from/fill returns
\* the k-th frame of "the initial frames followed by the pushed ones", that
\* is the k-th initial frame for k <= C and the frame pushed C pushes
\* earlier after that; the buffer then holds what a FIFO of C frames holds.
C11_PushIsStrictFIFO ==
    (rlast = "push" /\ RCap >= 1) =>
        /\ rret = rexp
        /\ fx.head = (rprev + 1) % RCap
        /\ fx.buffer[rprev + 1] = rq[RCap]
        /\ RLogical = rq
        /\ rsup # <<>> => rret = Some(rsup[rk])

C11_Witness ==
    /\ rlast = "push" /\ RCap = MaxLen /\ rk = RCap + 1 /\ rsup # <<>>
    /\ rorigin = "from_offset" /\ rstart = 0
    /\ rret # Some(rq[RCap]) /\ rret = Some(rsup[RCap + 1])

\* C12: the ring buffer is always full: capacity() and the number of frames
\* iter() yields stay the length of the backing buffer through push, fill,
\* fill_with and indexed writes, and every push returns one frame.
C12_AlwaysFull ==
    /\ capacity(fx) = Len(rq)
    /\ Len(fx.buffer) = Len(rq)
    /\ Iter_len(iter(fx)) = Len(rq)
    /\ rlast = "push" => Len(rret) = 1

C12_Witness ==
    /\ rlast = "push" /\ rk = 2 * RCap /\ RCap = MaxLen /\ rsup = <<>>
    /\ rorigin = "fill_with" /\ capacity(fx) = MaxLen

\* C13: push_with_flag raises the flag exactly on the pushes that take head
\* back to 0; counted from a head of 0 (from, fill, fill_with) these are the
\* C-th and the 2C-th push (and so on) and no other.
C13_WrapFlagEveryCth ==
    (rlast = "push" /\ RCap >= 1) =>
        /\ rflag <=> fx.head = 0
        /\ rstart = 0 => (rflag <=> rk \in {RCap, 2 * RCap})

C13_Witness ==
    /\ rlast = "push" /\ RCap = MaxLen /\ rstart = 0 /\ rk = 2 * RCap /\ rflag

\* C14: fill and fill_with overwrite every slot and set head to 0 whatever
\* head was; fill_with calls its closure exactly C times and stores the
\* frames in call order; the next C pushes return the filled frames in
\* order and the (C+1)-th returns the first frame pushed after the fill.
C14_FillOverwritesAndRewinds ==
    /\ rlast \in {"fill", "fill_with"} =>
           /\ fx.head = 0
           /\ fx.buffer = rsup
           /\ \A i \in 0..(RCap - 1) : get(fx, i) = Some(rsup[i + 1])
           /\ rlast = "fill_with" => rcalls = RCap
    /\ (rlast = "push" /\ rorigin \in {"fill", "fill_with"} /\ rsup # <<>>) =>
           rret = Some(rsup[rk])

C14_Witness ==
    /\ rlast = "push" /\ rorigin = "fill_with" /\ rsup # <<>>
    /\ RCap = MaxLen /\ rk = RCap + 1
    /\ rsup[1] # rsup[2] /\ rsup[RCap + 1] # rsup[1]

\* C15: indexed access is logical, relative to head: get(i) and get_mut(i)
\* address the i-th oldest frame for i < C and return None for i >= C,
\* leaving the buffer as it was; get_wrapped(i) and indexing address
\* logical position i mod C and panic only when the capacity is 0.
C15_IndexedAccessIsLogical ==
    /\ RLogical = rq
    /\ fx.head = rstart
    /\ rlast = "get" =>
           rret = IF ridx < RCap THEN Some(rq[ridx + 1]) ELSE None
    /\ rlast = "get_mut" =>
           rret = IF ridx < RCap THEN Some(rq[ridx + 1]) ELSE None
    /\ rlast = "get_wrapped" =>
           RCap >= 1 /\ rret = Some(rq[(ridx % RCap) + 1])
    /\ rlast = "index_mut" => RCap >= 1
    /\ rlast \in {"get_wrapped panicked", "index_mut panicked"} => RCap = 0

C15_Witness ==
    /\ rlast = "get_mut" /\ RCap = MaxLen /\ fx.head = RCap - 1
    /\ ridx = 1 /\ rret # Some(rq[1]) /\ rret # Some(rq[RCap])
    /\ rsup = <<>>

\* C16: iter()/iter_mut() yield the C frames oldest to newest whatever head
\* is, next_back() yields them newest to oldest, mixed calls yield every
\* position exactly once, len() is C less the frames yielded, and once all
\* are yielded both ends return None.
C16_IterationIsLogicalOrder ==
    it # NoIter =>
        /\ Len(itf) + Len(itb) = (IF itn < RCap THEN itn ELSE RCap)
        /\ Iter_len(it) = RCap - Len(itf) - Len(itb)
        /\ \A j \in 1..Len(itf) : itf[j] = rq[j]
        /\ \A j \in 1..Len(itb) : itb[j] = rq[RCap - j + 1]
        /\ rlast \in {"next", "next_back"} => (rret = None <=> itn > RCap)

C16_Witness ==
    /\ it # NoIter /\ RCap = MaxLen /\ fx.head = 1
    /\ Len(itf) = 1 /\ Len(itb) = RCap - 1 /\ itn = RCap + 2
    /\ rlast = "next_back" /\ rret = None
    /\ itb[1] # itb[2] /\ itf[1] # itb[1]

\* --------------------------- SpecSum: a moving mean / mean square / RMS
\* MovingMean, MovingMs or MovingRms over mono frames, built with from or
\* from_empty, then advanced, processed, filled and reset.  The samples are
\* the small ones and one far larger float.

FValues == Values \cup {Huge}

SumFrames == [1..1 -> FValues]

SumBuffers(c) == [1..c -> SumFrames]

\* The closures handed to fill_with yield equilibrium, the largest small
\* sample and the large float.
FTapes(c) == [1..c -> {EQUILIBRIUM, MaxVal, Huge}]

InitSum ==
    /\ cls \in SumClasses
    /\ \E c \in Lens : \E buffer \in SumBuffers(c) :
         \/ /\ calc = Moving_from(cls, buffer)
            /\ naive = buffer
            /\ origin = "from"
            /\ fed = Idle
            /\ rounded = ~FoldIsExact(buffer, 1, 1, 0)
         \/ /\ calc = Moving_from_empty(cls, buffer, 1)
            /\ naive = Repeat(FrameEQUILIBRIUM(1), c)
            /\ origin = "from_empty"
            /\ fed = <<>>
            /\ rounded = FALSE
    /\ last = origin
    /\ ret = None
    /\ BufIdle
    /\ AuxIdle
    /\ RingIdle

\* $cls::fill(fill_val)
Fill(fill_val) ==
    /\ Running
    /\ calc' = Moving_fill(cls, calc, fill_val)
    /\ naive' = Repeat(fill_val, Len_)
    /\ origin' = "fill"
    /\ last' = "fill"
    /\ ret' = None
    /\ rounded' = (cls \in SumClasses /\ \E ch \in DOMAIN fill_val :
                      fl(Stored(fill_val[ch]) * Len_) # Stored(fill_val[ch]) * Len_)
    /\ fed' = Idle
    /\ UNCHANGED <<cls, aux_vars, buf_vars, ring_vars>>

\* $cls::fill_with(fill_func), gen being the frames the closure returns
FillWith(gen) ==
    /\ Running
    /\ calc' = Moving_fill_with(cls, calc, gen)
    /\ naive' = gen
    /\ origin' = "fill_with"
    /\ last' = "fill_with"
    /\ ret' = None
    /\ rounded' = (cls \in SumClasses /\ \E ch \in DOMAIN gen[1] :
                      ~FoldIsExact(gen, ch, 1, 0))
    /\ fed' = Idle
    /\ UNCHANGED <<cls, aux_vars, buf_vars, ring_vars>>

NextSum ==
    \/ \E input \in SumFrames : Advance(input)
    \/ \E input \in SumFrames : Process(input)
    \/ Reset
    \/ \E fill_val \in SumFrames : Fill(fill_val)
    \/ \E t \in FTapes(Len_) : FillWith(Gen(t, 1))

SpecSum == InitSum /\ [][NextSum]_vars

\* ------------------------------------------------ running sum properties

\* The exact sum of channel ch of the frames the ring buffer holds.
WindowSum(ch) == SumOver(calc.window.buffer, ch, FALSE)

RECURSIVE FloatFold(_, _, _, _)
\* The float sum of channel ch of the frames from the i-th on, added front
\* to back onto acc.
FloatFold(frames, ch, i, acc) ==
    IF i > Len(frames) THEN acc
    ELSE FloatFold(frames, ch, i + 1, fl(acc + frames[i][ch]))

\* The ring buffer holds, oldest first, the stored form of the frames the
\* FIFO holds.
WindowIsFifo ==
    Rotated(calc.window.buffer, calc.window.head)
        = [i \in 1..Len(naive) |-> [ch \in DOMAIN naive[i] |-> Stored(naive[i][ch])]]

\* C17 as stated: in every state the running sum of a moving mean / mean
\* square / RMS is the sum of the C values the ring buffer holds (exactly,
\* or as floats added in stored or in logical order).
C17_SumIsWindowSum ==
    cls \in SumClasses =>
        \A ch \in DOMAIN calc.sum :
            calc.sum[ch] \in
                {WindowSum(ch),
                 FloatFold(calc.window.buffer, ch, 1, 0),
                 FloatFold(Rotated(calc.window.buffer, calc.window.head), ch, 1, 0)}

\* C17 amended: the ring buffer holds the (squared) frames of the window,
\* and the running sum is their sum as long as no addition, subtraction or
\* product that made it was rounded since the sum was last built anew.
C17_SumIsWindowSumUnlessRounded ==
    cls \in SumClasses =>
        /\ WindowIsFifo
        /\ ~rounded => \A ch \in DOMAIN calc.sum : calc.sum[ch] = WindowSum(ch)

C17_Witness ==
    /\ cls = "MovingMs" /\ ~rounded /\ last = "advance" /\ origin = "fill_with"
    /\ Len_ = MaxLen /\ calc.window.head = 1
    /\ calc.sum[1] = 2 * Huge * Huge + 0 /\ WindowSum(1) = calc.sum[1]

\* The quotient a summage current() reports for channel ch: the fraction
\* itself, or the one under the square root for an RMS.
Quotient(ch) ==
    LET cur == Moving_current(cls, calc)[ch]
    IN  IF cls = "MovingRms" THEN cur[2] ELSE cur

\* C18: current() of a moving mean / mean square (and the square of an RMS)
\* is the running sum divided by the window length C in every state, also
\* when fewer than C frames came since from_empty or reset: the frames that
\* came are summed and the divisor is still C.
C18_CurrentIsSumOverC ==
    cls \in SumClasses =>
        \A ch \in DOMAIN calc.sum :
            /\ Quotient(ch)[2] > 0
            /\ Quotient(ch)[1] * Len(naive) = calc.sum[ch] * Quotient(ch)[2]
            /\ last = "process" => ret = Some(Moving_current(cls, calc))
            /\ (fed # Idle /\ ~rounded) =>
                   Quotient(ch)[1] * Len(naive)
                       = Quotient(ch)[2] * SumOver(fed, ch, POW2(cls))

C18_Witness ==
    /\ cls = "MovingMean" /\ fed # Idle /\ ~rounded /\ last = "process"
    /\ Len_ = MaxLen /\ Len(fed) = 1 /\ fed[1][1] = 1
    /\ ret = Some(<< <<1, MaxLen>> >>)

\* ------- SpecCalls: a calculator and its Buffered wrapper, the same calls
\* A Moving calculator built with from(buffer) and a Buffered calculator built
\* with from(buffer) over the same buffer take the same calls side by side.
\* `last` names the call; a current() that follows a current() is recorded
\* as "current twice".

CurrentCalls == {"current", "current twice"}

InitCalls ==
    /\ cls \in Classes
    /\ \E c \in Lens : \E buffer \in MonoBuffers(c) :
        /\ calc = Moving_from(cls, buffer)
        /\ bst = Buffered__from(buffer)
    /\ last = "from" /\ ret = None
    /\ blast = "from" /\ bret = None
    /\ naive = Idle /\ origin = Idle /\ fed = Idle /\ rounded = Idle
    /\ bst2 = Absent /\ bwin = Idle /\ bn = Idle /\ bprev = Idle /\ borigin = Idle
    /\ RingIdle
    /\ AuxIdle

CallsIdle == UNCHANGED <<cls, aux_vars, naive, origin, fed, rounded, bst2, bwin, bn, bprev, borigin, ring_vars>>

CallsRunning == Running /\ BRunning

\* $cls::advance(input) and Buffered$cls::advance(input)
CAdvance(input) ==
    /\ CallsRunning
    /\ calc' = Moving_advance(cls, calc, input)
    /\ bst' = Buffered__advance(cls, bst, input)
    /\ last' = "advance" /\ ret' = None
    /\ blast' = "advance" /\ bret' = None
    /\ CallsIdle

\* $cls::current() and Buffered$cls::current()
CCurrent ==
    LET m == Moving_current_call(cls, calc)
        b == Buffered_current_call(cls, bst)
        call == IF last \in CurrentCalls THEN "current twice" ELSE "current"
    IN  /\ CallsRunning
        /\ calc' = m.self /\ ret' = Some(m.out)
        /\ bst' = b.self /\ bret' = Some(b.out)
        /\ last' = call /\ blast' = call
        /\ CallsIdle

\* $cls::process(input) and Buffered$cls::process(input)
CProcess(input) ==
    LET m == Moving_process(cls, calc, input)
        b == Buffered_process(cls, bst, input)
    IN  /\ CallsRunning
        /\ calc' = m.self /\ ret' = Some(m.out)
        /\ bst' = b.self /\ bret' = Some(b.out)
        /\ last' = "process" /\ blast' = "process"
        /\ CallsIdle

\* $cls::reset() and Buffered$cls::reset()
CReset ==
    /\ CallsRunning
    /\ calc' = Moving_reset(cls, calc)
    /\ bst' = Buffered__reset(bst)
    /\ last' = "reset" /\ ret' = None
    /\ blast' = "reset" /\ bret' = None
    /\ CallsIdle

\* $cls::fill(fill_val) and Buffered$cls::fill(fill_val)
CFill(fill_val) ==
    /\ CallsRunning
    /\ calc' = Moving_fill(cls, calc, fill_val)
    /\ bst' = Buffered__fill(cls, bst, fill_val)
    /\ last' = "fill" /\ ret' = None
    /\ blast' = "fill" /\ bret' = None
    /\ CallsIdle

NextCalls ==
    \/ \E input \in MonoFrames : CAdvance(input)
    \/ CCurrent
    \/ \E input \in MonoFrames : CProcess(input)
    \/ CReset
    \/ \E fill_val \in MonoFrames : CFill(fill_val)

SpecCalls == InitCalls /\ [][NextCalls]_vars

\* ------------------------------------------------------------------ C19
\* C19: current() is read-only.  A call to current() on a Moving calculator
\* or on a Buffered calculator leaves the calculator as it was and returns
\* the value computed from that state (for a Buffered calculator: None
\* before the window is full), and a call that follows another call to
\* current() returns the same value again.
C19_CurrentIsReadOnly ==
    [][last' \in CurrentCalls =>
        /\ calc' = calc
        /\ bst' = bst
        /\ ret' = Some(Moving_current(cls, calc))
        /\ bret' = Some(Buffered__current(cls, bst))
        /\ (last \in CurrentCalls => ret' = ret /\ bret' = bret)]_vars

\* current() was called twice in a row on a calculator that has advanced
\* and on an active Buffered calculator.
C19_Witness ==
    /\ last = "current twice" /\ blast = "current twice"
    /\ bst.tag = "Active"
    /\ bret = Some(ret)
    /\ calc.window # from_offset(calc.window.buffer, 0)

\* ------------------------------------------------------------------ C20
\* C20: process(frame) is advance(frame) followed by current().  After a
\* call to process the calculator is in the state advance leaves it in and
\* the value returned is the one current() gives in that state; for a
\* Buffered calculator that is None until the window is full and Some
\* afterwards.  The inner engines' __process agrees with the same two steps.
C20_ProcessIsAdvanceThenCurrent ==
    [][last' = "process" =>
        \E input \in MonoFrames :
            /\ calc' = Moving_advance(cls, calc, input)
            /\ ret' = Some(Moving_current(cls, calc'))
            /\ bst' = Buffered__advance(cls, bst, input)
            /\ bret' = Some(Buffered__current(cls, bst'))
            /\ (bret' = Some(None)) = (bst'.tag # "Active")
            /\ Inner__process(cls, calc, input) = [self |-> calc', out |-> ret'[1]]]_vars

\* process has just returned a value from a window that has wrapped, and
\* the Buffered calculator has answered Some for the first time.
C20_Witness ==
    /\ last = "process" /\ blast = "process"
    /\ bst.tag = "Active"
    /\ bret = Some(Some(ret[1]))
    /\ calc.window.head # 0

\* --------------------------- SpecNew: the constructors and empty buffers
\* One of the four constructors is called with a buffer of 0..MaxLen mono
\* frames; a calculator that was built is then advanced and queried.

Ctors == {"from", "from_empty", "Buffered::from", "Buffered::from_full"}

BufferedCtors == {"Buffered::from", "Buffered::from_full"}

\* The constructor has not run yet.
Pending == [panic |-> None, value |-> None]

InitNew ==
    /\ cls \in Classes
    /\ ctor \in Ctors
    /\ \E c \in 0..MaxLen : cbuf \in MonoBuffers(c)
    /\ built = Pending
    /\ cout = None
    /\ CmpIdle
    /\ TwinIdle
    /\ LateIdle
    /\ EngineIdle
    /\ BufIdle
    /\ RingIdle

\* The window length of the calculator that was built.
NewLen ==
    IF ctor \in BufferedCtors
    THEN BLen(built.value[1])
    ELSE capacity(built.value[1].window)

\* No step of the calculator that was built has panicked.
NewRunning ==
    /\ built.value # None
    /\ IF ctor \in BufferedCtors
       THEN built.value[1].tag = "Active" => ~Moving_failed(cls, built.value[1].calc)
       ELSE ~Moving_failed(cls, built.value[1])

\* The call of the constructor.
Construct ==
    /\ built = Pending
    /\ built' = IF ctor = "from" THEN cls_from(cls, cbuf)
                ELSE IF ctor = "from_empty" THEN cls_from_empty(cls, cbuf, 1)
                ELSE IF ctor = "Buffered::from" THEN Buffered_from(cls, cbuf)
                ELSE Buffered_from_full(cls, cbuf)
    /\ UNCHANGED <<cls, ctor, cbuf, cout, cmp_vars, twin_vars, late_vars, engine_vars, buf_vars, ring_vars>>

\* advance(input) on the calculator that was built.
NewAdvance(input) ==
    /\ NewRunning
    /\ built' = IF ctor \in BufferedCtors
                THEN Built(Buffered__advance(cls, built.value[1], input))
                ELSE Built(Moving_advance(cls, built.value[1], input))
    /\ cout' = None
    /\ UNCHANGED <<cls, ctor, cbuf, cmp_vars, twin_vars, late_vars, engine_vars, buf_vars, ring_vars>>

\* current() on the calculator that was built.
NewCurrent ==
    /\ NewRunning
    /\ cout' = IF ctor \in BufferedCtors
               THEN Some(Buffered_current_call(cls, built.value[1]).out)
               ELSE Some(Some(Moving_current_call(cls, built.value[1]).out))
    /\ UNCHANGED <<cls, ctor, cbuf, built, cmp_vars, twin_vars, late_vars, engine_vars, buf_vars, ring_vars>>

NextNew ==
    \/ Construct
    \/ \E input \in MonoFrames : NewAdvance(input)
    \/ NewCurrent

SpecNew == InitNew /\ [][NextNew]_vars

\* ------------------------------------------------------------------ C21
\* C21: a constructor of a moving calculator (from, from_empty,
\* Buffered from, Buffered from_full) called with a zero-length buffer panics
\* with 'buffer cannot be empty' and gives no calculator, and with any other
\* buffer it gives one; so every calculator there is has a window of at
\* least one frame, the length of the buffer it was built over, and only
\* such a calculator ever answers a query.
C21_EmptyBufferFailsAtConstruction ==
    built # Pending =>
        /\ (Len(cbuf) = 0) = (built.panic = Some(EMPTY_BUFFER_MSG))
        /\ (Len(cbuf) = 0) = (built.value = None)
        /\ built.value # None => NewLen >= 1 /\ NewLen = Len(cbuf)
        /\ cout # None => built.value # None /\ NewLen >= 1

\* Buffered from_full was called with an empty buffer and has panicked.
C21_Witness ==
    /\ ctor = "Buffered::from_full"
    /\ Len(cbuf) = 0
    /\ built = Panics(EMPTY_BUFFER_MSG)

\* ------------------------------------------------------------------ C25
\* C25: MovingMin / MovingMax from_empty(buffer) ignores the contents of the
\* buffer, whatever its length: the calculator it gives is the one it gives
\* for a buffer of equilibrium frames, its window holds equilibrium frames
\* only, current() is the equilibrium frame, and every channel's frontier
\* sits at position C - 1, the newest slot of the window, with no horizon.
C25_FromEmptyIgnoresContents ==
    [][(/\ built = Pending
        /\ ctor = "from_empty"
        /\ cls \in ExtremaClasses
        /\ built'.value # None) =>
        LET made == built'.value[1]
            c == Len(cbuf)
            zero == FrameEQUILIBRIUM(1)
        IN  /\ built' = cls_from_empty(cls, Repeat(zero, c), 1)
            /\ FixedIter(made.window) = Repeat(zero, c)
            /\ Moving_current(cls, made) = zero
            /\ made.ext_state.frontiers[1] = <<EQUILIBRIUM, c - 1>>
            /\ made.ext_state.horizons[1] = None
            /\ ~made.ext_state.err]_vars

\* from_empty has just built an extrema calculator over a buffer of MaxLen
\* frames none of which is the equilibrium frame.
C25_Witness ==
    /\ ctor = "from_empty"
    /\ cls \in ExtremaClasses
    /\ Len(cbuf) = MaxLen
    /\ \A i \in 1..Len(cbuf) : cbuf[i][1] # EQUILIBRIUM
    /\ built.value # None
    /\ built = cls_from_empty(cls, cbuf, 1)
    /\ cout = Some(Some(FrameEQUILIBRIUM(1)))

\* ------------------------------------- SpecCmp: the ordering policy
\* surpasses is called once on a pair of samples. The samples reach one
\* step past the window samples on both sides, and NaN.

CmpValues == (((0 - MaxVal) - 1)..(MaxVal + 1)) \cup {NaN}

InitCmp ==
    /\ candidate \in CmpValues
    /\ incumbent \in CmpValues
    /\ is_max \in BOOLEAN
    /\ verdict = None
    /\ cls = Idle
    /\ NewIdle
    /\ TwinIdle
    /\ LateIdle
    /\ EngineIdle
    /\ BufIdle
    /\ RingIdle

\* surpasses::<S, MAX>(&candidate, &incumbent)
Compare ==
    /\ verdict = None
    /\ verdict' = Some(surpasses(candidate, incumbent, is_max))
    /\ UNCHANGED <<cls, candidate, incumbent, is_max, new_vars, twin_vars, late_vars, engine_vars, buf_vars, ring_vars>>

NextCmp == Compare

SpecCmp == InitCmp /\ [][NextCmp]_vars

Comparable == candidate # NaN /\ incumbent # NaN

\* ------------------------------------------------------------------ C22
\* C22 as stated: surpasses(candidate, incumbent) is true iff the candidate
\* is strictly greater than the incumbent in max-mode, strictly less in
\* min-mode; false when the two are equal and when they are incomparable.
C22_SurpassesIsStrict ==
    verdict # None =>
        verdict[1] = (/\ Comparable
                      /\ IF is_max THEN candidate > incumbent
                                   ELSE candidate < incumbent)

\* C22 amended: surpasses(candidate, incumbent) is true iff the two are
\* comparable and the candidate is greater than or equal to the incumbent in
\* max-mode, less than or equal to it in min-mode; an equal candidate
\* surpasses, an incomparable one never does.
C22_SurpassesIsNonStrict ==
    verdict # None =>
        verdict[1] = (/\ Comparable
                      /\ IF is_max THEN candidate >= incumbent
                                   ELSE candidate <= incumbent)

\* surpasses has answered for an equal pair, and says yes.
C22_Witness ==
    /\ verdict = Some(TRUE)
    /\ candidate = incumbent
    /\ candidate # NaN

\* ------------------- SpecNaN: moving extrema over samples with NaN
\* MovingMin / MovingMax over mono frames whose sample may be NaN, built with
\* from(buffer) and then advanced.

NaNFrames == [1..1 -> Values \cup {NaN}]

NaNBuffers(c) == [1..c -> NaNFrames]

InitNaN ==
    /\ cls \in ExtremaClasses
    /\ \E c \in Lens : \E buffer \in NaNBuffers(c) :
         /\ calc = Moving_from(cls, buffer)
         /\ naive = buffer
    /\ origin = "from"
    /\ last = "from"
    /\ fed = Idle
    /\ ret = None
    /\ rounded = Idle
    /\ BufIdle
    /\ AuxIdle
    /\ RingIdle

\* $cls::advance(input)
NaNAdvance(input) ==
    /\ Running
    /\ calc' = Moving_advance(cls, calc, input)
    /\ naive' = Tail(naive) \o <<input>>
    /\ last' = "advance"
    /\ ret' = Some(input)
    /\ UNCHANGED <<cls, aux_vars, origin, fed, rounded, buf_vars, ring_vars>>

NextNaN == \E input \in NaNFrames : NaNAdvance(input)

SpecNaN == InitNaN /\ [][NextNaN]_vars

\* The comparable samples channel ch of the window holds.
ComparableOf(ch) == {naive[i][ch] : i \in 1..Len(naive)} \ {NaN}

\* The extremum of a non-empty set of comparable samples.
ExtremumOf(set) ==
    CHOOSE v \in set : \A w \in set : IF MAX(cls) THEN v >= w ELSE v <= w

\* Whenever a channel's window holds a comparable sample, current() of the
\* channel is the extremum of its comparable samples.
NaNIsNeverCurrent ==
    Running =>
        \A ch \in 1..1 :
            ComparableOf(ch) # {} =>
                Moving_current(cls, calc)[ch] = ExtremumOf(ComparableOf(ch))

\* The slot the frame just advanced sits in, as a frontier position.
NewestPos == Len_ - 1

\* An advance whose sample is NaN leaves it neither as the frontier nor as
\* the horizon of the channel.
NaNIsNeverInstalled ==
    (last' = "advance" /\ ~Moving_failed(cls, calc')) =>
        \A ch \in 1..1 :
            ret'[1][ch] = NaN =>
                LET f == calc'.ext_state.frontiers[ch]
                    h == calc'.ext_state.horizons[ch]
                IN  /\ ~(f[1] = NaN /\ f[2] = NewestPos)
                    /\ h # None => ~(h[1][1] = NaN /\ f[2] + 1 + h[1][2] = NewestPos)

\* ------------------------------------------------------------------ C23
\* C23: incomparable (NaN-like) samples are strictly worse than every
\* comparable one for the extrema trackers: an incomparable incoming sample
\* never becomes a frontier or a horizon, and whenever a channel's window
\* holds at least one comparable sample current() of the channel is the
\* extremum of the comparable samples, never an incomparable one, also when
\* the incomparable sample was the first frame of the window.
C23_IncomparableIsWorst == []NaNIsNeverCurrent /\ [][NaNIsNeverInstalled]_vars

\* ------------- SpecTwin: two extrema calculators alike on one channel
\* Two MovingMin / MovingMax calculators of the same length are built with
\* from over buffers that agree on channel `agree` and are advanced in step
\* with frames that agree on that channel.  On the other channels the first
\* calculator takes any sample and the second one of the two outermost.

TwinValues == {0 - MaxVal, MaxVal}

\* The frames the second calculator may get where the first gets `frame`.
TwinFrames(frame, ch) ==
    {g \in [1..NCh -> Values] :
        /\ g[ch] = frame[ch]
        /\ \A o \in (1..NCh) \ {ch} : g[o] \in TwinValues}

TwinBuffers(buffer, ch) ==
    {b \in [1..Len(buffer) -> Frames] :
        \A i \in 1..Len(buffer) : b[i] \in TwinFrames(buffer[i], ch)}

InitTwin ==
    /\ cls \in ExtremaClasses
    /\ agree \in 1..NCh
    /\ \E c \in Lens : \E buffer \in Buffers(c) : \E buffer2 \in TwinBuffers(buffer, agree) :
         /\ calc = Moving_from(cls, buffer)
         /\ calc2 = Moving_from(cls, buffer2)
    /\ last = "from"
    /\ naive = Idle /\ origin = Idle /\ fed = Idle /\ ret = Idle /\ rounded = Idle
    /\ BufIdle
    /\ NewIdle
    /\ CmpIdle
    /\ LateIdle
    /\ RingIdle

TwinRunning == ~Moving_failed(cls, calc) /\ ~Moving_failed(cls, calc2)

\* advance(input) on the first calculator, advance(input2) on the second.
TwinAdvance(input, input2) ==
    /\ TwinRunning
    /\ calc' = Moving_advance(cls, calc, input)
    /\ calc2' = Moving_advance(cls, calc2, input2)
    /\ last' = "advance"
    /\ UNCHANGED <<cls, agree, naive, origin, fed, ret, rounded, new_vars, cmp_vars, late_vars, buf_vars, ring_vars>>

NextTwin ==
    \E input \in Frames : \E input2 \in TwinFrames(input, agree) :
        TwinAdvance(input, input2)

SpecTwin == InitTwin /\ [][NextTwin]_vars

\* ------------------------------------------------------------------ C24
\* C24: channels never interact.  Two moving extrema calculators of the
\* same length whose frames agree on a channel and differ on the others
\* report the same current() on that channel after construction and after
\* every step, and no step panics.
C24_ChannelsNeverInteract ==
    /\ TwinRunning
    /\ Moving_current(cls, calc)[agree] = Moving_current(cls, calc2)[agree]

\* A step on which another channel of the first calculator took the
\* promotion path and rescanned the window while the second calculator's did
\* not, the windows differing on that channel.
C24_Witness ==
    /\ last = "advance"
    /\ \E o \in (1..NCh) \ {agree} :
        /\ calc.ext_state.diffs[o] = "Promoted"
        /\ calc2.ext_state.diffs[o] # "Promoted"
        /\ calc.ext_state.horizons[o] # None
        /\ Moving_current(cls, calc)[o] # Moving_current(cls, calc2)[o]
    /\ calc.ext_state.diffs[agree] = "NoChange"

\* ------------------ SpecReset: reset() next to a fresh from_empty
\* A Moving calculator of any class over mono frames is built with from,
\* advanced and filled.  When it is reset, a second calculator is built with
\* from_empty over a buffer of the same length and any contents, and from
\* then on the two are advanced in step; a fill ends the comparison.

InitReset ==
    /\ cls \in Classes
    /\ \E c \in Lens : \E buffer \in MonoBuffers(c) :
         calc = Moving_from(cls, buffer)
    /\ calc2 = None
    /\ agree = Idle
    /\ last = "from"
    /\ naive = Idle /\ origin = Idle /\ fed = Idle /\ ret = Idle /\ rounded = Idle
    /\ BufIdle
    /\ NewIdle
    /\ CmpIdle
    /\ LateIdle
    /\ RingIdle

ResetIdle ==
    UNCHANGED <<cls, agree, naive, origin, fed, ret, rounded, new_vars, cmp_vars, late_vars, buf_vars, ring_vars>>

ResetRunning ==
    /\ ~Moving_failed(cls, calc)
    /\ calc2 # None => ~Moving_failed(cls, calc2[1])

\* $cls::advance(input), on both calculators
ResetAdvance(input) ==
    /\ ResetRunning
    /\ calc' = Moving_advance(cls, calc, input)
    /\ calc2' = IF calc2 = None THEN None
                ELSE Some(Moving_advance(cls, calc2[1], input))
    /\ last' = "advance"
    /\ ResetIdle

\* $cls::reset(), and $cls::from_empty(buffer) for the second calculator
ResetCall(buffer) ==
    /\ ResetRunning
    /\ calc' = Moving_reset(cls, calc)
    /\ calc2' = Some(Moving_from_empty(cls, buffer, 1))
    /\ last' = "reset"
    /\ ResetIdle

\* $cls::fill(fill_val)
ResetFill(fill_val) ==
    /\ ResetRunning
    /\ calc' = Moving_fill(cls, calc, fill_val)
    /\ calc2' = None
    /\ last' = "fill"
    /\ ResetIdle

NextReset ==
    \/ \E input \in MonoFrames : ResetAdvance(input)
    \/ \E buffer \in MonoBuffers(Len_) : ResetCall(buffer)
    \/ \E fill_val \in MonoFrames : ResetFill(fill_val)

SpecReset == InitReset /\ [][NextReset]_vars

\* What current() gives for a channel of a window of equilibrium frames.
ZeroOutput ==
    IF cls \in ExtremaClasses THEN EQUILIBRIUM
    ELSE IF SQRT(cls) THEN sqrt(<<EQUILIBRIUM, 1>>)
    ELSE <<EQUILIBRIUM, 1>>

\* ------------------------------------------------------------------ C26
\* C26: reset() on a Moving calculator in any state returns it to the
\* state of a calculator freshly built with from_empty over a buffer of the
\* same length: right after reset() current() is the equilibrium frame, and
\* after any frames advanced since, current() equals that of the from_empty
\* calculator advanced with the same frames.
C26_ResetIsFromEmpty ==
    calc2 # None =>
        /\ ResetRunning
        /\ Moving_current(cls, calc) = Moving_current(cls, calc2[1])
        /\ capacity(calc.window) = capacity(calc2[1].window)
        /\ last = "reset" => Moving_current(cls, calc) = <<ZeroOutput>>
        /\ last = "reset" => calc = calc2[1]

\* A calculator of the largest window that was reset has since been advanced
\* once, as has its from_empty twin, and reports something other than
\* equilibrium.
C26_Witness ==
    /\ calc2 # None
    /\ last = "advance"
    /\ Len_ = MaxLen
    /\ Moving_current(cls, calc) # <<ZeroOutput>>
    /\ calc.window.head = 1

\* ----------------------- SpecSig: the moving signals of a finite signal
\* signal.moving_<stat>(window) and signal.buffered_moving_<stat>(window)
\* over a finite signal of mono frames; next() is called until it has
\* returned None.

\* The longest input signal.
MaxSig == MaxLen + 2

\* The samples of the input signal.
SigFrames == [1..1 -> {0 - MaxVal, MaxVal}]

\* FromFrames::next: self.0.next(), the iterator being over `signal`.
FromFrames_next(signal) ==
    IF signal = <<>>
    THEN [signal |-> signal, item |-> None]
    ELSE [signal |-> Tail(signal), item |-> Some(Head(signal))]

\* Signal::moving_<stat>(window): process($cls::from_empty(window))
Signal_moving(c, signal, window) ==
    [signal |-> signal, processor |-> cls_from_empty(c, window, 1).value[1]]

\* Signal::buffered_moving_<stat>(window): process_lazy(Buffered$cls::from(window))
Signal_buffered_moving(c, signal, window) ==
    [signal |-> signal, lazy_processor |-> Buffered_from(c, window).value[1]]

\* Process::next: signal.next()?, then Some(processor.process(input))
Process_next(c, self) ==
    LET n == FromFrames_next(self.signal)
    IN  IF n.item = None
        THEN [self |-> [self EXCEPT !.signal = n.signal], item |-> None]
        ELSE LET p == Processor_process(c, self.processor, n.item[1])
             IN  [self |-> [signal |-> n.signal, processor |-> p.self],
                  item |-> Some(p.out)]

\* next of ProcessLazy that hands on whatever the processor returns, a None
\* of a window still filling included.
ProcessLazy_next_no_loop(c, self) ==
    LET n == FromFrames_next(self.signal)
    IN  IF n.item = None
        THEN [self |-> [self EXCEPT !.signal = n.signal], item |-> None]
        ELSE LET p == BufferedProcessor_process(c, self.lazy_processor, n.item[1])
             IN  [self |-> [signal |-> n.signal, lazy_processor |-> p.self],
                  item |-> p.out]

\* ProcessLazy::next: loop { signal.next()?; return the first Some the
\* processor gives }.  turn[k] is the processor after k turns of the loop
\* with what process returned in the k-th; the loop ends at the first turn
\* that returns Some, or when signal.next() returns None.
ProcessLazy_next(c, self) ==
    LET signal == self.signal
        turn[k \in 0..Len(signal)] ==
            IF k = 0
            THEN [self |-> self.lazy_processor, out |-> None]
            ELSE BufferedProcessor_process(c, turn[k - 1].self, signal[k])
    IN  CHOOSE r \in
          { LET hits == {k \in 1..Len(signal) : t[k].out # None}
            IN  IF hits = {}
                THEN [self |-> [signal |-> <<>>,
                                lazy_processor |-> t[Len(signal)].self],
                      item |-> None]
                ELSE LET first == CHOOSE i \in hits : \A j \in hits : i <= j
                     IN  [self |-> [signal |-> SubSeq(signal, first + 1, Len(signal)),
                                    lazy_processor |-> t[first].self],
                          item |-> t[first].out]
            : t \in {[k \in 0..Len(signal) |-> turn[k]]} } : TRUE

InitSig ==
    /\ cls \in Classes
    /\ adaptor \in {"moving", "buffered"}
    /\ sn \in 0..MaxSig
    /\ sig \in [1..sn -> SigFrames]
    /\ \E c \in Lens : \E frame \in MonoFrames :
         proc = IF adaptor = "moving"
                THEN Signal_moving(cls, sig, Repeat(frame, c)).processor
                ELSE Signal_buffered_moving(cls, sig, Repeat(frame, c)).lazy_processor
    /\ syield = 0
    /\ sfirst = 0
    /\ sret = Some("not called")
    /\ CumIdle
    /\ NewIdle
    /\ CmpIdle
    /\ TwinIdle
    /\ EngineIdle
    /\ BufIdle
    /\ RingIdle

\* How many frames of the input signal have been consumed.
Consumed == sn - Len(sig)

\* The outcome of next() on the adaptor.
SigOutcome ==
    IF adaptor = "moving"
    THEN LET r == Process_next(cls, [signal |-> sig, processor |-> proc])
         IN  [signal |-> r.self.signal, proc |-> r.self.processor, item |-> r.item]
    ELSE LET r == ProcessLazy_next(cls, [signal |-> sig, lazy_processor |-> proc])
         IN  [signal |-> r.self.signal, proc |-> r.self.lazy_processor, item |-> r.item]

\* $cls::next / Buffered$cls::next of the adaptor: self.0.next()
SigNext ==
    /\ sret # None
    /\ \E o \in {SigOutcome} :
         /\ sig' = o.signal
         /\ proc' = o.proc
         /\ sret' = o.item
         /\ syield' = IF o.item # None THEN syield + 1 ELSE syield
         /\ sfirst' = IF o.item # None /\ syield = 0
                      THEN sn - Len(o.signal)
                      ELSE sfirst
    /\ UNCHANGED <<cls, adaptor, sn, cum_vars, new_vars, cmp_vars, twin_vars, engine_vars, buf_vars, ring_vars>>

NextSig == SigNext

SpecSig == InitSig /\ [][NextSig]_vars

\* The window length B of the adaptor's processor.
SigLen == IF adaptor = "moving" THEN capacity(proc.window) ELSE BLen(proc)

\* ------------------------------------------------------------------ C27
\* C27: for a finite input signal of n frames and a window buffer of length
\* B >= 1, buffered_moving_<stat> yields exactly n - B + 1 frames (0 when
\* n < B), the first one when exactly B input frames have been consumed,
\* one more for every input frame after that, and then ends; moving_<stat>
\* yields one frame for every input frame, n in all, and then ends.
C27_SignalLengths ==
    /\ adaptor = "moving" => syield = Consumed
    /\ adaptor = "buffered" =>
        /\ syield = (IF Consumed < SigLen THEN 0 ELSE Consumed - SigLen + 1)
        /\ syield >= 1 => sfirst = SigLen
    /\ sret = None =>
        /\ sig = <<>>
        /\ syield = (IF adaptor = "moving" THEN sn
                     ELSE IF sn < SigLen THEN 0 ELSE sn - SigLen + 1)

\* A buffered signal over the longest input and a window of two frames or
\* more has ended after yielding n - B + 1 frames.
C27_Witness ==
    /\ adaptor = "buffered"
    /\ sret = None
    /\ sn = MaxSig
    /\ SigLen >= 2
    /\ syield = sn - SigLen + 1
    /\ sfirst = SigLen

\* ------------------------------ SpecCum: the cumulative calculators
\* stats/cumulative.rs: CumulativeRms, CumulativeMs, CumulativeMean over a
\* running average `avg` and CumulativeMin, CumulativeMax over `extrema`,
\* each with a frame count.  An average is kept per channel as a reduced
\* fraction <<numerator, denominator>>.

CumulativeClasses ==
    {"CumulativeRms", "CumulativeMs", "CumulativeMean", "CumulativeMin", "CumulativeMax"}

CumulativeExtremaClasses == {"CumulativeMin", "CumulativeMax"}

ZERO_FRAMES_MSG == "no frames processed yet"

\* The most frames advanced without a reset in between.
MaxCount == MaxLen + 1

\* SummageInner::__default / ExtremaInner::__default
CumulativeSummageInner__default(n) ==
    [avg |-> [ch \in 1..n |-> <<EQUILIBRIUM, 1>>], count |-> 0]

CumulativeExtremaInner__default(n) ==
    [extrema |-> FrameEQUILIBRIUM(n), count |-> 0]

\* a + (x - a) / c on a fraction a, floored at equilibrium when SQRT.
cumulative_avg(a, x, c, sqrt_) ==
    LET new_a == div_sample(a[1] * c + (x * a[2] - a[1]), a[2] * c)
    IN  IF sqrt_ /\ new_a[1] < EQUILIBRIUM THEN <<EQUILIBRIUM, 1>> ELSE new_a

\* SummageInner::__advance of cumulative.rs
CumulativeSummageInner__advance(e, input, sqrt_, pow2_) ==
    LET x == IF pow2_ THEN [ch \in DOMAIN input |-> input[ch] * input[ch]] ELSE input
    IN  IF e.count = 0
        THEN [avg |-> [ch \in DOMAIN x |-> <<x[ch], 1>>], count |-> 1]
        ELSE [avg |-> [ch \in DOMAIN x |->
                         cumulative_avg(e.avg[ch], x[ch], e.count + 1, sqrt_)],
              count |-> e.count + 1]

\* __advance of the extrema engine that counts the first frame only.
CumulativeExtremaInner__advance_counts_first_only(e, input, max_) ==
    IF e.count = 0
    THEN [extrema |-> input, count |-> 1]
    ELSE [extrema |-> [ch \in DOMAIN input |->
                         IF surpasses(input[ch], e.extrema[ch], max_)
                         THEN input[ch] ELSE e.extrema[ch]],
          count |-> e.count]

\* ExtremaInner::__advance of cumulative.rs
CumulativeExtremaInner__advance(e, input, max_) ==
    IF e.count = 0
    THEN [extrema |-> input, count |-> 1]
    ELSE [extrema |-> [ch \in DOMAIN input |->
                         IF surpasses(input[ch], e.extrema[ch], max_)
                         THEN input[ch] ELSE e.extrema[ch]],
          count |-> e.count + 1]

\* __current_unchecked of both engines
CumulativeSummageInner__current_unchecked(e, sqrt_) ==
    [ch \in DOMAIN e.avg |-> IF sqrt_ THEN sqrt(e.avg[ch]) ELSE e.avg[ch]]

CumulativeExtremaInner__current_unchecked(e) == e.extrema

\* impl Default for $cls, and $cls::reset: *self = Self::default()
Cumulative_default(c, n) ==
    IF c \in CumulativeExtremaClasses
    THEN CumulativeExtremaInner__default(n)
    ELSE CumulativeSummageInner__default(n)

Cumulative_reset(c, e) == Cumulative_default(c, IF c \in CumulativeExtremaClasses THEN Len(e.extrema) ELSE Len(e.avg))

\* $cls::advance
Cumulative_advance(c, e, input) ==
    IF c \in CumulativeExtremaClasses
    THEN CumulativeExtremaInner__advance(e, input, c = "CumulativeMax")
    ELSE CumulativeSummageInner__advance(e, input, c = "CumulativeRms",
                                         c \in {"CumulativeRms", "CumulativeMs"})

\* $cls::is_empty, $cls::count
Cumulative_is_empty(e) == e.count = 0

Cumulative_count(e) == e.count

\* $cls::try_current
Cumulative_try_current(c, e) ==
    IF ~Cumulative_is_empty(e)
    THEN Some(IF c \in CumulativeExtremaClasses
              THEN CumulativeExtremaInner__current_unchecked(e)
              ELSE CumulativeSummageInner__current_unchecked(e, c = "CumulativeRms"))
    ELSE None

\* $cls::current: self.try_current().expect(ZERO_FRAMES_MSG)
Cumulative_current(c, e) ==
    LET t == Cumulative_try_current(c, e)
    IN  IF t = None THEN Panics(ZERO_FRAMES_MSG) ELSE Built(t[1])

InitCum ==
    /\ cls \in CumulativeClasses
    /\ cum = Cumulative_default(cls, 1)
    /\ cn = 0
    /\ clast = "default"
    /\ cret = None
    /\ SigIdle
    /\ NewIdle
    /\ CmpIdle
    /\ TwinIdle
    /\ EngineIdle
    /\ BufIdle
    /\ RingIdle

CumFrame ==
    UNCHANGED <<cls, sig_vars, new_vars, cmp_vars, twin_vars, engine_vars, buf_vars, ring_vars>>

\* $cls::advance(input)
CumAdvance(input) ==
    /\ cn < MaxCount
    /\ cum' = Cumulative_advance(cls, cum, input)
    /\ cn' = cn + 1
    /\ clast' = "advance"
    /\ cret' = None
    /\ CumFrame

\* $cls::reset()
CumReset ==
    /\ cum' = Cumulative_reset(cls, cum)
    /\ cn' = 0
    /\ clast' = "reset"
    /\ cret' = None
    /\ CumFrame

\* $cls::count()
CumCount ==
    /\ cret' = Some(Cumulative_count(cum))
    /\ clast' = "count"
    /\ UNCHANGED <<cum, cn>>
    /\ CumFrame

\* $cls::is_empty()
CumIsEmpty ==
    /\ cret' = Some(Cumulative_is_empty(cum))
    /\ clast' = "is_empty"
    /\ UNCHANGED <<cum, cn>>
    /\ CumFrame

\* $cls::try_current()
CumTryCurrent ==
    /\ cret' = Some(Cumulative_try_current(cls, cum))
    /\ clast' = "try_current"
    /\ UNCHANGED <<cum, cn>>
    /\ CumFrame

\* $cls::current(); a panic it raises is caught and the calculator lives on.
CumCurrent ==
    /\ cret' = Some(Cumulative_current(cls, cum))
    /\ clast' = "current"
    /\ UNCHANGED <<cum, cn>>
    /\ CumFrame

NextCum ==
    \/ \E input \in MonoFrames : CumAdvance(input)
    \/ CumReset
    \/ CumCount
    \/ CumIsEmpty
    \/ CumTryCurrent
    \/ CumCurrent

SpecCum == InitCum /\ [][NextCum]_vars

\* ------------------------------------------------------------------ C28
\* C28: for every cumulative calculator count() is the number of frames
\* advanced since creation or the last reset(); is_empty() is true and
\* try_current() is None exactly when that number is 0, current() panics
\* with 'no frames processed yet' in exactly that state and returns a frame
\* otherwise, and reset() returns the calculator to it from any state.
C28_CountAndEmptiness ==
    /\ clast = "count" => cret = Some(cn)
    /\ clast = "is_empty" => cret = Some(cn = 0)
    /\ clast = "try_current" => (cret = Some(None)) = (cn = 0)
    /\ clast = "current" =>
        /\ (cret[1] = Panics(ZERO_FRAMES_MSG)) = (cn = 0)
        /\ (cret[1].value # None) = (cn # 0)
    /\ clast = "reset" => cn = 0 /\ cum = Cumulative_default(cls, 1)
    /\ Cumulative_count(cum) = cn

\* current() has returned a frame from a calculator two frames were
\* advanced into.
C28_Witness ==
    /\ clast = "current"
    /\ cn = 2
    /\ cret[1].panic = None
    /\ cret[1].value # None

\* ------------- SpecScan: moving extrema over five levels of samples
\* MovingMin / MovingMax over mono frames whose samples reach one step past
\* the samples of the other specifications on both sides, with windows of up
\* to MaxLen + 1 frames: enough levels for a frontier, a horizon, and two
\* different samples behind the horizon.  The calculator is built with from
\* or from_empty, then advanced and filled.

ScanValues == ((0 - MaxVal) - 1)..(MaxVal + 1)

ScanFrames == [1..1 -> ScanValues]

ScanLens == 1..(MaxLen + 1)

InitScan ==
    /\ cls \in ExtremaClasses
    /\ \E c \in ScanLens : \E buffer \in [1..c -> ScanFrames] :
         \/ /\ calc = Moving_from(cls, buffer)
            /\ naive = buffer
            /\ origin = "from"
         \/ /\ calc = Moving_from_empty(cls, buffer, 1)
            /\ naive = Repeat(FrameEQUILIBRIUM(1), c)
            /\ origin = "from_empty"
    /\ last = origin
    /\ fed = Idle
    /\ ret = None
    /\ rounded = Idle
    /\ BufIdle
    /\ AuxIdle
    /\ RingIdle

\* $cls::advance(input)
ScanAdvance(input) ==
    /\ Running
    /\ calc' = Moving_advance(cls, calc, input)
    /\ naive' = Tail(naive) \o <<input>>
    /\ last' = "advance"
    /\ ret' = Some(input)
    /\ UNCHANGED <<cls, aux_vars, origin, fed, rounded, buf_vars, ring_vars>>

\* $cls::fill(fill_val)
ScanFill(fill_val) ==
    /\ Running
    /\ calc' = Moving_fill(cls, calc, fill_val)
    /\ naive' = Repeat(fill_val, Len_)
    /\ last' = "fill"
    /\ ret' = None
    /\ UNCHANGED <<cls, aux_vars, origin, fed, rounded, buf_vars, ring_vars>>

NextScan ==
    \/ \E input \in ScanFrames : ScanAdvance(input)
    \/ \E fill_val \in ScanFrames : ScanFill(fill_val)

SpecScan == InitScan /\ [][NextScan]_vars

\* ------------------------------------------------------------------ C29
\* C29: in every reachable state and every channel of a moving extrema
\* calculator, the horizon, when present, lies strictly after the frontier's
\* position and holds the true extremum, under the calculator's ordering,
\* of the frames of the window strictly after that position, at the offset
\* of a frame that has that sample.
C29_HorizonIsExtremumAfterFrontier ==
    Running =>
        \A ch \in DOMAIN calc.ext_state.frontiers :
            LET f == calc.ext_state.frontiers[ch]
                h == calc.ext_state.horizons[ch]
                after == SubSeq(naive, f[2] + 2, Len(naive))
            IN  h # None =>
                    /\ f[2] + 1 < Len_
                    /\ h[1][2] < Len(after)
                    /\ h[1][1] = TrueExt(ChannelSet(after, ch), MAX(cls))
                    /\ after[h[1][2] + 1][ch] = h[1][1]

\* A horizon that survived an advance: the frontier is the oldest frame of a
\* window of MaxLen frames or more, the horizon is the frame after it, and
\* the frames behind the horizon hold two different samples.
C29_Witness ==
    /\ last = "advance"
    /\ Len_ >= MaxLen
    /\ Len_ >= 3
    /\ naive[Len_][1] # naive[Len_ - 1][1]
    /\ calc.ext_state.frontiers[1][2] = 0
    /\ calc.ext_state.horizons[1] # None
    /\ calc.ext_state.horizons[1][1][2] = 0
    /\ calc.ext_state.horizons[1][1][1] # naive[Len_][1]
    /\ calc.ext_state.diffs[1] = "NoChange"

\* ------------------------------------------------------------------ C30
\* The step is an advance that evicts the frontier (it sat on the oldest
\* frame) while a horizon exists that the incoming sample does not surpass.
PromotionStep ==
    /\ Running
    /\ last' = "advance"
    /\ calc.ext_state.frontiers[1][2] = 0
    /\ calc.ext_state.horizons[1] # None
    /\ ~surpasses(ret'[1][1], calc.ext_state.horizons[1][1][1], MAX(cls))

\* C30: on an advance that evicts the frontier while a horizon exists and
\* the incoming sample does not surpass the horizon, the step is a promotion
\* that does not panic: the new frontier is the old horizon, its sample at
\* the window position equal to the old horizon's offset; the new horizon is
\* absent when no frame follows the new frontier, and otherwise is the
\* extremum of all the frames after the new frontier, the frame just pushed
\* included, at the offset of a frame with that sample; and current() equals
\* the extremum of the whole window found by an independent rescan.
C30_Promotion ==
    [][PromotionStep =>
        LET old_h == calc.ext_state.horizons[1][1]
            f == calc'.ext_state.frontiers[1]
            h == calc'.ext_state.horizons[1]
            after == SubSeq(naive', f[2] + 2, Len(naive'))
        IN  /\ ~calc'.ext_state.err
            /\ calc'.ext_state.diffs[1] = "Promoted"
            /\ f = old_h
            /\ naive'[f[2] + 1][1] = f[1]
            /\ FixedIter(calc'.window) = naive'
            /\ IF Len(after) = 0
               THEN h = None
               ELSE /\ h # None
                    /\ h[1][1] = TrueExt(ChannelSet(after, 1), MAX(cls))
                    /\ h[1][2] < Len(after)
                    /\ after[h[1][2] + 1][1] = h[1][1]
            /\ Moving_current(cls, calc')[1]
                 = TrueExt(ChannelSet(naive', 1), MAX(cls))
    ]_vars

\* A promotion in a window of MaxLen + 1 frames: the old horizon was the
\* frame right after the frontier, and the new horizon found by the rescan
\* is neither the first frame after the new frontier nor the frame just
\* pushed.
C30_Witness ==
    /\ last = "advance"
    /\ Len_ = MaxLen + 1
    /\ Len_ >= 4
    /\ calc.ext_state.diffs[1] = "Promoted"
    /\ calc.ext_state.frontiers[1][2] = 0
    /\ calc.ext_state.horizons[1] # None
    /\ calc.ext_state.horizons[1][1][2] > 0
    /\ calc.ext_state.horizons[1][1][2] < Len_ - 2
    /\ calc.ext_state.horizons[1][1][1] # naive[Len_][1]

\* ------- SpecEng: a moving extrema calculator, all its public mutators
\* MovingMin / MovingMax over mono frames of five sample levels and NaN,
\* built with from or from_empty, then advanced, filled (fill, fill_with)
\* and reset in any order.

EngValues == ScanValues \cup {NaN}

EngFrames == [1..1 -> EngValues]

\* The frames a fill_with closure hands out.
EngTapes(c) == [1..c -> [1..1 -> {0 - MaxVal, MaxVal, NaN}]]

InitEng ==
    /\ cls \in ExtremaClasses
    /\ \E c \in Lens : \E buffer \in [1..c -> EngFrames] :
         \/ /\ calc = Moving_from(cls, buffer)
            /\ naive = buffer
            /\ origin = "from"
         \/ /\ calc = Moving_from_empty(cls, buffer, 1)
            /\ naive = Repeat(FrameEQUILIBRIUM(1), c)
            /\ origin = "from_empty"
    /\ last = origin
    /\ fed = Idle
    /\ ret = None
    /\ rounded = Idle
    /\ BufIdle
    /\ AuxIdle
    /\ RingIdle

\* The frontier and the horizon of the one channel, before a step.
EngF == calc.ext_state.frontiers[1]

EngH == calc.ext_state.horizons[1]

\* The frame about to be evicted is the frontier's.
IsFPop == EngF[2] = 0

\* The case of push_pop, as its comments name the cases, that the sample x
\* meets in the state before the step.
EngCase(x) ==
    IF surpasses(x, EngF[1], MAX(cls))
    THEN IF IsFPop THEN "PFF" ELSE "PNF"
    ELSE IF EngH # None
         THEN IF surpasses(x, EngH[1][1], MAX(cls))
              THEN IF IsFPop THEN "PFH" ELSE "PNH"
              ELSE IF IsFPop THEN "PFN" ELSE "PNN"
         ELSE IF IsFPop THEN "PFI" ELSE "PNI"

\* $cls::advance(input); ret keeps the frame that was pushed and fed the
\* case it met.
EngAdvance(input) ==
    /\ Running
    /\ calc' = Moving_advance(cls, calc, input)
    /\ naive' = Tail(naive) \o <<input>>
    /\ last' = "advance"
    /\ ret' = Some(input)
    /\ fed' = EngCase(input[1])
    /\ UNCHANGED <<cls, aux_vars, origin, rounded, buf_vars, ring_vars>>

\* $cls::fill(fill_val)
EngFill(fill_val) ==
    /\ Running
    /\ calc' = Moving_fill(cls, calc, fill_val)
    /\ naive' = Repeat(fill_val, Len_)
    /\ last' = "fill"
    /\ ret' = Some(fill_val)
    /\ fed' = Idle
    /\ UNCHANGED <<cls, aux_vars, origin, rounded, buf_vars, ring_vars>>

\* $cls::fill_with(fill_func), the closure returning the frames of gen.
EngFillWith(gen) ==
    /\ Running
    /\ calc' = Moving_fill_with(cls, calc, gen)
    /\ naive' = gen
    /\ last' = "fill_with"
    /\ ret' = None
    /\ fed' = Idle
    /\ UNCHANGED <<cls, aux_vars, origin, rounded, buf_vars, ring_vars>>

\* $cls::reset()
EngReset ==
    /\ Running
    /\ calc' = Moving_reset(cls, calc)
    /\ naive' = Repeat(FrameEQUILIBRIUM(1), Len_)
    /\ last' = "reset"
    /\ ret' = None
    /\ fed' = Idle
    /\ UNCHANGED <<cls, aux_vars, origin, rounded, buf_vars, ring_vars>>

NextEng ==
    \/ \E input \in EngFrames : EngAdvance(input)
    \/ \E fill_val \in EngFrames : EngFill(fill_val)
    \/ \E gen \in EngTapes(Len_) : EngFillWith(gen)
    \/ EngReset

SpecEng == InitEng /\ [][NextEng]_vars

\* ------------------------------------------------------------------ C31
\* The incoming sample x takes the frontier: it surpasses the frontier, or
\* the frontier is evicted and x surpasses the horizon, or the frontier is
\* evicted and there is no horizon.
TakesFrontier(x) ==
    \/ surpasses(x, EngF[1], MAX(cls))
    \/ IsFPop /\ EngH # None /\ surpasses(x, EngH[1][1], MAX(cls))
    \/ IsFPop /\ EngH = None

\* C31: on every advance in which the incoming sample takes the frontier
\* (it surpasses the frontier, evicted or not; or the frontier is evicted
\* and it surpasses the horizon; or the frontier is evicted and no horizon
\* exists) the new frontier is the incoming sample at the newest window
\* position, C - 1, where the window holds it, the horizon is absent after
\* the step and the step reports Diff::Frontier; on every other advance the
\* step does not report Diff::Frontier.
C31_IncomingTakesFrontier ==
    [][(Running /\ last' = "advance") =>
        LET x == ret'[1][1]
        IN  IF TakesFrontier(x)
            THEN /\ calc'.ext_state.frontiers[1] = <<x, Len_ - 1>>
                 /\ calc'.ext_state.horizons[1] = None
                 /\ calc'.ext_state.diffs[1] = "Frontier"
                 /\ FixedIter(calc'.window)[Len_][1] = x
                 /\ ~calc'.ext_state.err
            ELSE calc'.ext_state.diffs[1] # "Frontier"
    ]_vars

\* The frontier was evicted from a window of MaxLen frames while a horizon
\* existed, and the incoming sample, which did not surpass the old frontier,
\* took the frontier over the horizon (case [PFH]).
C31_Witness ==
    /\ last = "advance"
    /\ Len_ = MaxLen
    /\ calc.ext_state.diffs[1] = "Frontier"
    /\ calc.ext_state.frontiers[1] = <<ret[1][1], Len_ - 1>>
    /\ calc.ext_state.horizons[1] = None
    /\ cls = "MovingMax"
    /\ ret[1][1] = 0
    /\ naive[1][1] = 0 - MaxVal
    /\ fed = "PFH"

\* ------------------------------------------------------------------ C32
\* C32: on every advance in which the evicted frame is not the frontier's, a
\* horizon exists and the incoming sample surpasses neither the frontier nor
\* the horizon (case [PNN]), the frontier's sample and the horizon, sample
\* and offset, stay as they were, the frontier's stored position goes down
\* by exactly one, the cursor stays, and the step reports Diff::NoChange.
C32_NoChangeOnlyAges ==
    [][(Running /\ last' = "advance"
          /\ ~IsFPop
          /\ EngH # None
          /\ ~surpasses(ret'[1][1], EngF[1], MAX(cls))
          /\ ~surpasses(ret'[1][1], EngH[1][1], MAX(cls))) =>
        /\ calc'.ext_state.frontiers[1][1] = EngF[1]
        /\ calc'.ext_state.frontiers[1][2] = EngF[2] - 1
        /\ calc'.ext_state.horizons[1] = EngH
        /\ calc'.ext_state.cursor_pos = calc.ext_state.cursor_pos
        /\ calc'.ext_state.diffs[1] = "NoChange"
        /\ ~calc'.ext_state.err
    ]_vars

\* An advance of a window of MaxLen frames met case [PNN] with a comparable
\* sample that differs from the frontier's and from the horizon's, and the
\* frontier now sits on the oldest frame.
C32_Witness ==
    /\ last = "advance"
    /\ fed = "PNN"
    /\ Len_ = MaxLen
    /\ ret[1][1] # NaN
    /\ calc.ext_state.frontiers[1][2] = 0
    /\ calc.ext_state.frontiers[1][1] # ret[1][1]
    /\ calc.ext_state.horizons[1] # None
    /\ calc.ext_state.horizons[1][1][1] # ret[1][1]
    /\ calc.ext_state.diffs[1] = "NoChange"

\* ------------------------------------------------------------------ C33
\* C33: in a window of length 1 no horizon exists in any state, the frontier
\* sits at position 0, and every advance reports Diff::Frontier and makes
\* the incoming sample the frontier, so that current() is the frame just
\* pushed, whatever the sample (one that does not surpass the old frontier,
\* or an incomparable one, included).
C33_LengthOneTracksInput ==
    (Running /\ Len_ = 1) =>
        /\ calc.ext_state.horizons[1] = None
        /\ calc.ext_state.frontiers[1][2] = 0
        /\ calc.ext_state.cursor_pos = 0
        /\ last = "advance" =>
             /\ Moving_current(cls, calc) = ret[1]
             /\ calc.ext_state.diffs[1] = "Frontier"
             /\ fed \in {"PFF", "PFI"}

\* A window of length 1 took, by case [PFI], a comparable sample that did
\* not surpass the frame it replaced.
C33_Witness ==
    /\ Len_ = 1
    /\ last = "advance"
    /\ fed = "PFI"
    /\ ret[1][1] # NaN
    /\ Moving_current(cls, calc) = ret[1]

\* ------------------------------------------------------------------ C34
\* In a state, the horizon is absent exactly when the frontier sits at the
\* newest position of the window.
HorizonAbsentIffFrontierNewest ==
    Running => (EngH = None <=> EngF[2] = Len_ - 1)

\* On an advance: when the frontier is evicted with no horizon and the
\* incoming sample does not surpass it ([PFI]) the window has length 1; and
\* a step that reports a promotion leaves a horizon.
PFIOnlyLengthOneAndPromotionFinds ==
    (Running /\ last' = "advance") =>
        /\ (IsFPop /\ EngH = None /\ ~surpasses(ret'[1][1], EngF[1], MAX(cls)))
             => Len_ = 1
        /\ calc'.ext_state.diffs[1] = "Promoted"
             => calc'.ext_state.horizons[1] # None

\* C34: in every reachable state the horizon of a channel is absent exactly
\* when its frontier sits at the newest position, C - 1, of the window; so
\* case [PFI] (frontier evicted, no horizon, input not surpassing) is met
\* only by windows of length 1, and every promotion finds a new horizon.
C34_HorizonAbsentIffFrontierNewest ==
    []HorizonAbsentIffFrontierNewest /\ [][PFIOnlyLengthOneAndPromotionFinds]_vars

\* A promotion in a window of MaxLen >= 2 frames whose only frame after the
\* new frontier is the frame just pushed, which became the horizon.
C34_Witness ==
    /\ last = "advance"
    /\ fed = "PFN"
    /\ Len_ = MaxLen
    /\ Len_ >= 2
    /\ calc.ext_state.diffs[1] = "Promoted"
    /\ calc.ext_state.frontiers[1][2] = Len_ - 2
    /\ calc.ext_state.horizons[1] = Some(<<ret[1][1], 0>>)

\* ------------------------------------------------------------------ C35
\* C35: in every state reached by from / from_empty and any advance, fill,
\* fill_with and reset calls, incomparable samples included, no assertion or
\* expectation of the engine has failed (err is FALSE); the frontier's
\* position lies in [0, C) and never exceeds cursor_pos = C - 1; a horizon,
\* when present, has cursor_pos - frontier_pos - 1 >= 0 and an offset within
\* the window; a horizon just initialised has offset 0; and a promoted
\* frontier has a position in [0, C).
C35_NoInternalAssertionFails ==
    /\ ~calc.ext_state.err
    /\ calc.ext_state.cursor_pos = Len_ - 1
    /\ EngF[2] \in 0..(Len_ - 1)
    /\ EngH # None =>
         /\ calc.ext_state.cursor_pos - EngF[2] - 1 >= 0
         /\ EngH[1][2] \in 0..(calc.ext_state.cursor_pos - EngF[2] - 1)
    /\ calc.ext_state.diffs[1] = "HorizonInit" =>
         /\ EngH # None
         /\ EngH[1][2] = 0
    /\ calc.ext_state.diffs[1] = "Promoted" => EngF[2] \in 0..(Len_ - 2)

\* An advance met case [PNI] under an incomparable frontier: the horizon was
\* initialised, at offset 0, in a window of MaxLen >= 2 frames.
C35_Witness ==
    /\ last = "advance"
    /\ fed = "PNI"
    /\ Len_ = MaxLen
    /\ Len_ >= 2
    /\ EngF[1] = NaN
    /\ calc.ext_state.diffs[1] = "HorizonInit"
    /\ EngH # None

\* ------------------------------------------------------------------ C36
\* The frames are a strictly increasing run for a min engine, a strictly
\* decreasing one for a max engine, of comparable samples.
StrictRun(frames) ==
    /\ \A i \in 1..Len(frames) : frames[i][1] # NaN
    /\ \A i \in 1..(Len(frames) - 1) :
         IF MAX(cls) THEN frames[i][1] > frames[i + 1][1]
                     ELSE frames[i][1] < frames[i + 1][1]

\* A window with no frames: a step that reads the window cannot get its
\* result from it.
NoWindow == [head |-> 0, buffer |-> <<>>]

\* C36: when the window of a min engine (max engine) of length C >= 2 holds
\* a strictly increasing (decreasing) run and the incoming sample continues
\* it, the advance evicts the frontier and takes the promotion path, on
\* every such step; and every advance that does not report a promotion gives
\* the extrema state it would give without any window to read, the
\* promotion being the only path that scans it.
C36_PromotionOnEveryStepOfARun ==
    [][(Running /\ last' = "advance") =>
        /\ (Len_ >= 2 /\ StrictRun(naive \o <<ret'[1]>>)) =>
             /\ IsFPop
             /\ calc'.ext_state.diffs[1] = "Promoted"
             /\ calc'.ext_state.frontiers[1] = <<naive'[1][1], 0>>
        /\ calc'.ext_state.diffs[1] # "Promoted" =>
             calc'.ext_state = push_pop(calc.ext_state, ret'[1], NoWindow, MAX(cls))
    ]_vars

\* A calculator built with from over a run of MaxLen >= 3 frames has been
\* advanced along the run: the step promoted, the window is a run again and
\* its frontier is the oldest frame once more.
C36_Witness ==
    /\ last = "advance"
    /\ origin = "from"
    /\ Len_ = MaxLen
    /\ Len_ >= 3
    /\ StrictRun(naive)
    /\ calc.ext_state.diffs[1] = "Promoted"
    /\ EngF[2] = 0
    /\ EngH = Some(<<naive[2][1], 0>>)

\* ------------------------------------------------------------------ C37
\* The frame most recently stored by a Buffered calculator: the slot before
\* the head of a filling ring, the newest frame of an Active window.  An
\* Active Rms / Ms calculator stores the squared frames.
BStored(frame) ==
    pow2_frame(frame, bst.tag = "Active" /\ POW2(cls))

BNewest ==
    IF bst.tag = "Uninit"
    THEN bst.ring_buffer.buffer[bst.ring_buffer.head]
    ELSE FixedIter(bst.calc.window)[BLen(bst)]

\* C37: after from, from_full, advance, process, fill, fill_with and reset
\* the state of a Buffered calculator is Uninit or Active, never Dummy, and
\* so the call was not ignored: a reset leaves an Uninit ring at head 0, a
\* fill or fill_with an Active calculator over the frames given, an advance
\* or process a state whose newest frame is the input, Active once the
\* ring has been filled.
C37_NeverDummy ==
    /\ bst.tag \in {"Uninit", "Active"}
    /\ blast \in {"from", "reset"} => bst.tag = "Uninit" /\ bst.ring_buffer.head = 0
    /\ blast = "from_full" => bst.tag = "Active"
    /\ blast \in {"fill", "fill_with"} =>
         /\ bst.tag = "Active"
         /\ FixedIter(bst.calc.window) = [i \in 1..Len(bwin) |-> BStored(bwin[i])]
    /\ blast \in {"advance", "process"} =>
         /\ BNewest = BStored(bwin[Len(bwin)])
         /\ bst.tag = "Active" <=> (bprev = "Active" \/ Len(bwin) = BLen(bst))

\* An advance has filled the ring of an Uninit calculator of length >= 2,
\* which went through the swap of __promote and is Active.
C37_Witness ==
    /\ blast = "advance"
    /\ bprev = "Uninit"
    /\ bst.tag = "Active"
    /\ BLen(bst) >= 2

\* ------------------------------------------------------------------ C38
\* Two engines hold the same window, head, frontiers, horizons and cursor.
SameEngineState(a, b) ==
    /\ a.window = b.window
    /\ a.ext_state.frontiers = b.ext_state.frontiers
    /\ a.ext_state.horizons = b.ext_state.horizons
    /\ a.ext_state.cursor_pos = b.ext_state.cursor_pos

\* What from() builds over the frames the last fill or fill_with wrote.
FromOfFilled == Moving_from(cls, naive)

\* C38 (as claimed): after fill(v) the engine holds exactly the state that
\* from() builds over C copies of v, and after fill_with(g) exactly the state
\* that from() builds over the C generated frames.
C38_FillLeavesTheStateOfFrom ==
    (Running /\ last \in {"fill", "fill_with"}) =>
        SameEngineState(calc, FromOfFilled)

\* C38 (amended): fill_with(g) leaves exactly the state of from() over the
\* generated frames; fill(v) leaves exactly the state of from() over C copies
\* of v when v is comparable or C = 1.  For an incomparable v and C >= 2 the
\* window, head, cursor and reported value are those of from(), but fill puts
\* the frontier at the newest position with no horizon, where from() keeps
\* the frontier at position 0 with the incomparable value as its horizon.
C38_FillOfComparableLeavesTheStateOfFrom ==
    /\ (Running /\ last = "fill_with") => SameEngineState(calc, FromOfFilled)
    /\ (Running /\ last = "fill" /\ (naive[1][1] # NaN \/ Len_ = 1)) =>
         SameEngineState(calc, FromOfFilled)
    /\ (Running /\ last = "fill" /\ naive[1][1] = NaN /\ Len_ >= 2) =>
         /\ calc.window = FromOfFilled.window
         /\ calc.ext_state.cursor_pos = FromOfFilled.ext_state.cursor_pos
         /\ Moving_current(cls, calc) = Moving_current(cls, FromOfFilled)
         /\ EngF = <<NaN, Len_ - 1>>
         /\ EngH = None
         /\ FromOfFilled.ext_state.frontiers[1] = <<NaN, 0>>
         /\ FromOfFilled.ext_state.horizons[1] = Some(<<NaN, 0>>)

\* A window of MaxLen >= 2 frames has been filled with a comparable sample:
\* the frontier is that sample at the newest position, as from() leaves it.
C38_Witness ==
    /\ last = "fill"
    /\ Len_ = MaxLen
    /\ Len_ >= 2
    /\ naive[1][1] = MaxVal
    /\ EngF = <<MaxVal, Len_ - 1>>
    /\ SameEngineState(calc, FromOfFilled)

\* ------------------------------------------------------------------ C39
\* The frame at logical index i (0 = oldest) of the engine's ring buffer.
WindowAt(i) == FixedIter(calc.window)[i + 1]

\* C39: in every reachable state the stored positions address the stored
\* values: the frontier position lies in 0..C-1 and the frame at that
\* logical index of the ring buffer (0 = oldest) carries the frontier value;
\* when a horizon is present, frontier position + 1 + horizon offset is at
\* most C-1 and the frame at that index carries the horizon value; and
\* cursor_pos equals C-1.
C39_PositionsAddressValues ==
    Running =>
        /\ EngF[2] \in 0..(Len_ - 1)
        /\ WindowAt(EngF[2])[1] = EngF[1]
        /\ EngH # None =>
             /\ EngH[1][2] >= 0
             /\ EngF[2] + 1 + EngH[1][2] <= Len_ - 1
             /\ WindowAt(EngF[2] + 1 + EngH[1][2])[1] = EngH[1][1]
        /\ calc.ext_state.cursor_pos = Len_ - 1

\* After an advance the frontier sits strictly inside a window of three
\* frames, between an older frame and its horizon, all three of different
\* values.
C39_Witness ==
    /\ last = "advance"
    /\ Len_ = 3
    /\ EngF[2] = 1
    /\ EngH # None
    /\ EngH[1][2] = 0
    /\ WindowAt(0)[1] # EngF[1]
    /\ EngH[1][1] # EngF[1]
    /\ WindowAt(0)[1] # EngH[1][1]

\* ------------------------------------------------------------------ C40
\* The frame i places back from the most recently pushed one (0 = newest).
WindowBack(i) == FixedIter(calc.window)[Len_ - i]

\* The frontier of the state was set by the sample that came in last.
FreshFrontier ==
    /\ last = "advance"
    /\ calc.ext_state.diffs[1] = "Frontier"

\* C40 (as claimed): the frontier position counts backward from the most
\* recently pushed frame, position 0 being the newest frame of the window,
\* and a frontier freshly set by the incoming value has position 0.
C40_PositionCountsBackFromNewest ==
    Running =>
        /\ EngF[2] \in 0..(Len_ - 1)
        /\ WindowBack(EngF[2])[1] = EngF[1]
        /\ FreshFrontier => EngF[2] = 0

\* A step of advance treats position 0 as the oldest frame: a frontier at
\* position 0 leaves the window with the frame pushed out and is replaced,
\* any other frontier is replaced by the incoming sample or stays, one
\* position lower.
FrontierLeavesAtZero ==
    (Running /\ last' = "advance") =>
        IF EngF[2] = 0
        THEN /\ WindowAt(0)[1] = EngF[1]
             /\ calc'.ext_state.diffs[1] \in {"Frontier", "Promoted"}
        ELSE \/ calc'.ext_state.diffs[1] = "Frontier"
             \/ calc'.ext_state.frontiers[1] = <<EngF[1], EngF[2] - 1>>

\* C40 (amended): the frontier position counts forward from the oldest frame
\* of the window: position 0 denotes the frame that the next advance pushes
\* out, position C-1 the most recently pushed frame, and a frontier freshly
\* set by the incoming value (and one set by fill, reset or from_empty) has
\* position C-1.
C40_PositionCountsFromOldest ==
    /\ [](Running =>
            /\ EngF[2] \in 0..(Len_ - 1)
            /\ WindowAt(EngF[2])[1] = EngF[1]
            /\ (FreshFrontier \/ last \in {"fill", "reset", "from_empty"}) =>
                 /\ EngF[2] = Len_ - 1
                 /\ WindowBack(0)[1] = EngF[1])
    /\ [][FrontierLeavesAtZero]_vars

\* The incoming sample has just taken the frontier of a window of MaxLen >= 2
\* frames whose oldest frame holds another value: its position is C-1 and
\* reading the position backward from the newest frame would miss it.
C40_Witness ==
    /\ FreshFrontier
    /\ Len_ = MaxLen
    /\ Len_ >= 2
    /\ EngF[2] = Len_ - 1
    /\ WindowBack(EngF[2])[1] # EngF[1]

====
